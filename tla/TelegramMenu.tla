---------------------------- MODULE TelegramMenu ----------------------------
(***************************************************************************)
(* The menu of commands that Telegram shows, and the record of the last    *)
(* publish that it confirmed (hermes_layer2/telegram_menu.py).  The caller *)
(* asks should_publish, calls the Bot API, and on success mark_published;  *)
(* it is Hermes, outside this repository.  One gateway, which may die.     *)
(***************************************************************************)
EXTENDS Naturals

CONSTANTS
  Payloads,    \* rendered menus
  Cooldown,
  MaxMenuTime, \* bound: time
  MaxMenuFaults   \* bound: databases that cannot be read or written, and deaths

ASSUME MenuAssumption == {Cooldown, MaxMenuTime, MaxMenuFaults} \subseteq Nat /\ Payloads # {}

VARIABLES
  menuNow, wanted,
  shown,       \* what Telegram shows
  record,      \* the stored fingerprint and time
  menu,        \* where the gateway is
  sending,     \* the menu it evaluates
  lostMark,    \* history: since the last record, a publish was not recorded
  menuFaults

menuVars == <<menuNow, wanted, shown, record, menu, sending, lostMark, menuFaults>>

NoMenu == "no menu"
NoRecord == [of |-> NoMenu, at |-> 0]

MenuInit ==
  /\ menuNow = 0 /\ wanted \in Payloads /\ shown = NoMenu /\ record = NoRecord
  /\ menu = "idle" /\ sending = NoMenu /\ lostMark = FALSE /\ menuFaults = 0

MenuFault == menuFaults < MaxMenuFaults /\ menuFaults' = menuFaults + 1

MenuTick ==
  /\ menuNow < MaxMenuTime /\ menuNow' = menuNow + 1
  /\ UNCHANGED <<wanted, shown, record, menu, sending, lostMark, menuFaults>>

\* Uses, a plugin, a new name: the menu comes out different.
MenuChanges ==
  /\ wanted' \in Payloads \ {wanted}
  /\ UNCHANGED <<menuNow, shown, record, menu, sending, lostMark, menuFaults>>

ShouldPublish ==
  \/ record = NoRecord
  \/ record.of # wanted /\ menuNow - record.at >= Cooldown

Evaluate ==
  /\ menu = "idle" /\ ShouldPublish /\ menu' = "publish" /\ sending' = wanted
  /\ UNCHANGED <<menuNow, wanted, shown, record, lostMark, menuFaults>>

\* Fail-open: the record cannot be read.
EvaluateBlindly ==
  /\ menu = "idle" /\ MenuFault /\ menu' = "publish" /\ sending' = wanted
  /\ UNCHANGED <<menuNow, wanted, shown, record, lostMark>>

Confirmed ==
  /\ menu = "publish" /\ menu' = "mark" /\ shown' = sending
  /\ UNCHANGED <<menuNow, wanted, record, sending, lostMark, menuFaults>>

\* Mutant of Rejected: the publish is recorded in spite of it.
RejectedRecorded ==
  /\ menu = "publish" /\ menu' = "mark"
  /\ UNCHANGED <<menuNow, wanted, shown, record, sending, lostMark, menuFaults>>

Rejected ==
  /\ menu = "publish" /\ menu' = "idle" /\ sending' = NoMenu
  /\ UNCHANGED <<menuNow, wanted, shown, record, lostMark, menuFaults>>

MarkPublished ==
  /\ menu = "mark" /\ menu' = "idle" /\ sending' = NoMenu
  /\ record' = [of |-> sending, at |-> menuNow] /\ lostMark' = FALSE
  /\ UNCHANGED <<menuNow, wanted, shown, menuFaults>>

\* mark_published swallows its error, or the gateway dies.
MarkIsLost ==
  /\ menu = "mark" /\ MenuFault /\ menu' = "idle" /\ sending' = NoMenu /\ lostMark' = TRUE
  /\ UNCHANGED <<menuNow, wanted, shown, record>>

MenuNext ==
  \/ MenuTick \/ MenuChanges \/ Evaluate \/ EvaluateBlindly \/ Confirmed \/ Rejected
  \/ MarkPublished \/ MarkIsLost

MenuSpec == MenuInit /\ [][MenuNext]_menuVars

-----------------------------------------------------------------------------
(* Properties.                                                             *)
MenuTypeOK ==
  /\ menuNow \in 0 .. MaxMenuTime /\ wanted \in Payloads /\ shown \in Payloads \union {NoMenu}
  /\ record \in [of : Payloads \union {NoMenu}, at : 0 .. MaxMenuTime]
  /\ menu \in {"idle", "publish", "mark"} /\ sending \in Payloads \union {NoMenu}
  /\ lostMark \in BOOLEAN /\ menuFaults \in 0 .. MaxMenuFaults

\* The record is what Telegram shows, whatever failed, unless a publish could not
\* be recorded: a failed one is tried again (telegram_menu.py:124-126).
RecordedIsShown == menu # "mark" /\ ~lostMark => record.of = shown
=============================================================================

------------------------------- MODULE Notifier -------------------------------
(***************************************************************************)
(* app/notify.py over the table telegram_notifications of app/dao.py.  A   *)
(* critical notification is saved, sent and marked, in three steps; the    *)
(* others are saved, for flush_normal_batch to send.                       *)
(*                                                                         *)
(* list_unsent_notifications calls .get on the rows of the query, which    *)
(* are sqlite3.Row (app/db.py) and have no such method: with a row to      *)
(* report it raises, and what follows it in flush_normal_batch is never    *)
(* reached, nor is the flag of the last batch ever set.                    *)
(*                                                                         *)
(* Notification n is the nth one saved.                                    *)
(***************************************************************************)
EXTENDS Integers

CONSTANT MaxNotes   \* bounds the notifications

ASSUME MaxNotesIsNat == MaxNotes \in Nat

Notes == 1 .. MaxNotes

VARIABLES
  saved,       \* the notifications saved so far
  critical,    \* those among them that are critical
  mark,        \* sent_at_utc and last_error of each: unsent, sent or error
  sending,     \* where send_critical is, for the last notification saved
  telegram,    \* the notifications the chat has received
  returned,    \* history: the critical ones whose send_critical has returned
  flush        \* how the last flush_normal_batch ended

notifierVars == <<saved, critical, mark, sending, telegram, returned, flush>>

NotifierTypeOK ==
  /\ saved \in 0 .. MaxNotes
  /\ critical \subseteq 1 .. saved
  /\ mark \in [Notes -> {"unsent", "sent", "error"}]
  /\ sending \in {"no", "send", "markSent", "markError"}
  /\ telegram \subseteq 1 .. saved
  /\ returned \subseteq critical
  /\ flush \in {"none", "nothing", "raised"}

NotifierInit ==
  /\ saved = 0
  /\ critical = {}
  /\ mark = [n \in Notes |-> "unsent"]
  /\ sending = "no"
  /\ telegram = {}
  /\ returned = {}
  /\ flush = "none"

-----------------------------------------------------------------------------
EnqueueNormal ==
  /\ sending = "no"
  /\ saved < MaxNotes
  /\ saved' = saved + 1
  /\ UNCHANGED <<critical, mark, sending, telegram, returned, flush>>

\* send_critical, up to save_notification.
SaveCritical ==
  /\ sending = "no"
  /\ saved < MaxNotes
  /\ saved' = saved + 1
  /\ critical' = critical \cup {saved + 1}
  /\ sending' = "send"
  /\ UNCHANGED <<mark, telegram, returned, flush>>

\* _send_text: Telegram answers, or the request fails on its way there or back.
SendText ==
  /\ sending = "send"
  /\ \/ telegram' = telegram \cup {saved} /\ sending' = "markSent"
     \/ telegram' \in {telegram, telegram \cup {saved}} /\ sending' = "markError"
  /\ UNCHANGED <<saved, critical, mark, returned, flush>>

MarkSent ==
  /\ sending = "markSent"
  /\ mark' = [mark EXCEPT ![saved] = "sent"]
  /\ sending' = "no"
  /\ returned' = returned \cup {saved}
  /\ UNCHANGED <<saved, critical, telegram, flush>>

\* Mutant: without the return, the notification is marked as sent as well.
MarkErrorGoesOn ==
  /\ sending = "markError"
  /\ sending' = "markSent"
  /\ UNCHANGED <<saved, critical, mark, telegram, returned, flush>>

MarkError ==
  /\ sending = "markError"
  /\ mark' = [mark EXCEPT ![saved] = "error"]
  /\ sending' = "no"
  /\ returned' = returned \cup {saved}
  /\ UNCHANGED <<saved, critical, telegram, flush>>

\* The process dies, or the database or an answer that is not JSON raises out of
\* send_critical.
NotifierDies ==
  /\ sending # "no"
  /\ sending' = "no"
  /\ UNCHANGED <<saved, critical, mark, telegram, returned, flush>>

\* severity <> CRITICAL AND sent_at_utc IS NULL
UnsentNormal == {n \in 1 .. saved : n \notin critical /\ mark[n] # "sent"}

\* flush_normal_batch
Flush ==
  /\ sending = "no"
  /\ flush' = IF UnsentNormal = {} THEN "nothing" ELSE "raised"
  /\ UNCHANGED <<saved, critical, mark, sending, telegram, returned>>

NotifierNext ==
  \/ EnqueueNormal
  \/ SaveCritical
  \/ SendText
  \/ MarkSent
  \/ MarkError
  \/ NotifierDies
  \/ Flush

NotifierSpec == NotifierInit /\ [][NotifierNext]_notifierVars

-----------------------------------------------------------------------------
\* What the table says of a critical notification after send_critical has
\* returned is true as far as it can be: one marked as sent is in the chat, one
\* that is not in the chat is marked with an error, and a call cut short leaves
\* its notification unmarked.
MarksAreTrue ==
  \A n \in critical :
    /\ mark[n] = "sent" => n \in telegram
    /\ n \in returned /\ n \notin telegram => mark[n] = "error"
    /\ n \notin returned => mark[n] = "unsent"
=============================================================================

------------------------------ MODULE SheetsSync ------------------------------
(***************************************************************************)
(* app/sheets.py over the table sheets_sync_queue of app/dao.py: what the  *)
(* spreadsheet has to be told of an entity waits in the entity's row until *)
(* the Sheets API has taken it.  A later payload for the same entity       *)
(* replaces the one that waits.                                            *)
(*                                                                         *)
(* Payload p is the pth enqueued.                                          *)
(***************************************************************************)
EXTENDS Integers, Sequences, SequencesExt, FiniteSets

CONSTANTS
  Entities,      \* the keys of the queue: entity_type, entity_id, operation
  MaxPayloads,   \* bounds the payloads enqueued
  PassLimit      \* limit of process_sync_queue

ASSUME SheetsConstants == MaxPayloads \in Nat /\ PassLimit \in Nat \ {0}

\* An append and a batchUpdate both name the sheet they write to; "bad" is a
\* payload that json.loads or _apply_payload refuses.
Modes == {"write", "bad"}

VARIABLES
  modes,      \* the mode of each payload enqueued
  queue,      \* the entities with a row, in the order of created_at_utc
  waiting,    \* the payload in each entity's row
  newest,     \* history: the last payload enqueued for each entity, or 0
  pass,       \* the rows listed and not yet tried, with their payloads
  applied,    \* the payload of each entity that reached its sheet last, or 0
  answer,     \* what applying the first of them gave: none, taken or refused
  overtaken,  \* history: entities whose payload was replaced in a pass that held it
  monthSheet, \* the sheet Trades_YYYYMM: absent, bare (without header), headed
  up          \* whether the process runs

sheetsVars == <<modes, queue, waiting, newest, pass, applied, answer, overtaken,
                monthSheet, up>>

SheetsTypeOK ==
  /\ modes \in Seq(Modes) /\ Len(modes) <= MaxPayloads
  /\ queue \in Seq(Entities)
  /\ waiting \in [Entities -> 0 .. Len(modes)]
  /\ newest \in [Entities -> 0 .. Len(modes)]
  /\ pass \in Seq(Entities \X (1 .. Len(modes)))
  /\ applied \in [Entities -> 0 .. Len(modes)]
  /\ answer \in {"none", "taken", "refused"}
  /\ overtaken \subseteq Entities
  /\ monthSheet \in {"absent", "bare", "headed"}
  /\ up \in BOOLEAN

SheetsInit ==
  /\ modes = <<>>
  /\ queue = <<>>
  /\ waiting = [k \in Entities |-> 0]
  /\ newest = [k \in Entities |-> 0]
  /\ pass = <<>>
  /\ applied = [k \in Entities |-> 0]
  /\ answer = "none"
  /\ overtaken = {}
  /\ monthSheet = "absent"
  /\ up = TRUE

-----------------------------------------------------------------------------
Queued(k) == \E i \in DOMAIN queue : queue[i] = k

\* enqueue_sheets_sync: INSERT ... ON CONFLICT DO UPDATE.  Database lets any
\* thread call it, while a pass is under way too.
EnqueueSync(k) ==
  /\ up
  /\ Len(modes) < MaxPayloads
  /\ \E m \in Modes : modes' = Append(modes, m)
  /\ newest' = [newest EXCEPT ![k] = Len(modes')]
  /\ waiting' = [waiting EXCEPT ![k] = Len(modes')]
  /\ queue' = IF Queued(k) THEN queue ELSE Append(queue, k)
  /\ overtaken' = IF \E i \in DOMAIN pass : pass[i][1] = k
                    THEN overtaken \cup {k} ELSE overtaken \ {k}
  /\ UNCHANGED <<pass, applied, answer, monthSheet, up>>

\* list_sheets_sync_pending
ListPending ==
  /\ up
  /\ pass = <<>>
  /\ queue # <<>>
  /\ LET n == IF Len(queue) < PassLimit THEN Len(queue) ELSE PassLimit IN
       /\ pass' = [i \in 1 .. n |-> <<queue[i], waiting[queue[i]]>>]
       /\ overtaken' = overtaken \ {queue[i] : i \in 1 .. n}
  /\ UNCHANGED <<modes, queue, waiting, newest, applied, answer, monthSheet, up>>

\* The API takes a payload whose sheet exists.
Applicable(p) == modes[p] = "write" /\ monthSheet # "absent"

Reaches(k, p) == applied' = [applied EXCEPT ![k] = p]

\* _apply_payload
ApplyPayload ==
  /\ pass # <<>> /\ answer = "none"
  /\ Applicable(Head(pass)[2])
  /\ Reaches(Head(pass)[1], Head(pass)[2])
  /\ answer' = "taken"
  /\ UNCHANGED <<modes, queue, waiting, newest, pass, overtaken, monthSheet,
                 up>>

\* The payload is refused, the request is lost, or its answer is.
ApplyFails ==
  /\ pass # <<>> /\ answer = "none"
  /\ answer' = "refused"
  /\ \/ UNCHANGED applied
     \/ Applicable(Head(pass)[2]) /\ Reaches(Head(pass)[1], Head(pass)[2])
  /\ UNCHANGED <<modes, queue, waiting, newest, pass, overtaken, monthSheet,
                 up>>

\* DELETE: an entity has one row.
RowGoes(k) ==
  /\ queue' = RemoveFirst(queue, k)
  /\ waiting' = [waiting EXCEPT ![k] = 0]

\* Mutant: the row goes whatever the answer was.
MarkAlwaysDone ==
  /\ answer # "none"
  /\ RowGoes(Head(pass)[1])
  /\ pass' = Tail(pass)
  /\ answer' = "none"
  /\ UNCHANGED <<modes, newest, applied, overtaken, monthSheet, up>>

\* Mutant: the row of a payload that was taken stays, too.
MarkKeepsRow ==
  /\ answer # "none"
  /\ pass' = Tail(pass)
  /\ answer' = "none"
  /\ UNCHANGED <<modes, queue, waiting, newest, applied, overtaken, monthSheet, up>>

\* mark_sheets_sync_attempt: the row goes, whatever payload it holds by now, or
\* stays where it is.
MarkAttempt ==
  /\ answer # "none"
  /\ IF answer = "taken" THEN RowGoes(Head(pass)[1])
                         ELSE UNCHANGED <<queue, waiting>>
  /\ pass' = Tail(pass)
  /\ answer' = "none"
  /\ UNCHANGED <<modes, newest, applied, overtaken, monthSheet, up>>

\* The process dies, or the database raises out of the pass and ends it.
PassDies ==
  /\ up
  /\ up' = FALSE
  /\ pass' = <<>>
  /\ answer' = "none"
  /\ UNCHANGED <<modes, queue, waiting, newest, applied, overtaken, monthSheet>>

SheetsStart ==
  /\ ~up
  /\ up' = TRUE
  /\ UNCHANGED <<modes, queue, waiting, newest, pass, applied, answer, overtaken,
                 monthSheet>>

\* ensure_trades_sheet_for_month: a sheet that exists is left as it is; a new
\* one gets the template's header, or none when that fails.
EnsureMonthSheet ==
  /\ up /\ monthSheet = "absent"
  /\ monthSheet' \in {"bare", "headed"}
  /\ UNCHANGED <<modes, queue, waiting, newest, pass, applied, answer, overtaken,
                 up>>

SheetsNext ==
  \/ \E k \in Entities : EnqueueSync(k)
  \/ ListPending
  \/ ApplyPayload
  \/ ApplyFails
  \/ MarkAttempt
  \/ PassDies
  \/ SheetsStart
  \/ EnsureMonthSheet

FirstIs(k) == pass # <<>> /\ Head(pass)[1] = k

\* A pass is started again and again and goes on; the API takes an entity's
\* payload at some time if it is offered for ever.
SheetsFairness ==
  /\ WF_sheetsVars(ListPending)
  /\ WF_sheetsVars(ApplyPayload \/ ApplyFails)
  /\ \A k \in Entities : SF_sheetsVars(FirstIs(k) /\ ApplyPayload)
  /\ WF_sheetsVars(MarkAttempt)
  /\ WF_sheetsVars(EnsureMonthSheet)

SheetsSpec == SheetsInit /\ [][SheetsNext]_sheetsVars /\ SheetsFairness

-----------------------------------------------------------------------------
\* An entity without a row has its newest payload in the sheet, whatever was
\* lost, repeated or cut short; the exception is a payload that replaced the one
\* a pass was holding, which goes with the row when the pass is done with it.
SheetHasTheNewest ==
  \A k \in Entities :
    ~Queued(k) => applied[k] = newest[k] \/ k \in overtaken

Bad(k) == Queued(k) /\ modes[waiting[k]] = "bad"

\* A payload that can be taken leaves the queue in the end, if the process
\* is not ended for ever, and if those that never can be leave room: they stay at
\* the head of the queue, and PassLimit of them would stop it.
SheetsQueueMoves ==
  /\ <>[]up
  /\ []<>(Cardinality({k \in Entities : Bad(k)}) < PassLimit)
  => \A k \in Entities : Queued(k) ~> ~Queued(k) \/ Bad(k)
=============================================================================

------------------------------- MODULE Envelopes -------------------------------
(***************************************************************************)
(* The envelopes tick of app/service.py: the first file of the inbox is    *)
(* read, recorded in envelopes_v1, decided upon in decisions_v5 and moved  *)
(* out of the inbox.  Each step may fail, which is logged and passed over, *)
(* and the process may die between any two of them.                        *)
(*                                                                         *)
(* A file is a number, in the order of the names.  A row of envelopes_v1   *)
(* is what it says: ingesting a file again in the same way adds another    *)
(* row that says the same.                                                 *)
(***************************************************************************)
EXTENDS Integers, FiniteSetsExt

CONSTANTS
  MaxFiles,   \* bounds the files that are dropped into the inbox
  Contents    \* what model_validate refuses, or what the guards tell apart

Unreadable == [wide |-> TRUE, flags |-> {"unreadable"}]

ASSUME EnvelopeConstants ==
  /\ MaxFiles \in Nat
  /\ Contents \subseteq
       {Unreadable} \cup [wide : BOOLEAN, flags : SUBSET {"OK", "THIN"}]

Files == 1 .. MaxFiles

NoRow == [file |-> 0, outcome |-> "none"]

VARIABLES
  place,       \* the folder each file is in: none (yet), inbox, done or bad
  content,     \* what each file holds
  aged,        \* the files whose ts_utc is older than the maximal age
  envelopes,   \* the rows of envelopes_v1
  decisions,   \* the rows of decisions_v5, envelope_id standing for its row
  tick,        \* where the tick is, or "down" with the process
  file,        \* the file it has in hand, or 0
  envelopeId   \* envelope_id, as its row

envelopeVars == <<place, content, aged, envelopes, decisions, tick, file,
                  envelopeId>>

EnvelopeRows == [file : Files, outcome : {"stale", "done"}]

Actions == {"DecisionActionV5.ALLOW", "DecisionActionV5.WAIT"}

EnvelopesTypeOK ==
  /\ place \in [Files -> {"none", "inbox", "done", "bad"}]
  /\ content \in [Files -> Contents \cup {Unreadable}]
  /\ aged \subseteq Files
  /\ envelopes \subseteq EnvelopeRows
  /\ decisions \subseteq [file : Files, envelope : EnvelopeRows \cup {NoRow},
                          action : Actions]
  /\ tick \in {"idle", "stale", "accepted", "decide", "done", "bad",
              "down"}
  /\ file \in {0} \cup Files
  /\ envelopeId \in EnvelopeRows \cup {NoRow}

EnvelopesInit ==
  /\ place = [f \in Files |-> "none"]
  /\ content = [f \in Files |-> Unreadable]
  /\ aged = {}
  /\ envelopes = {} /\ decisions = {}
  /\ tick = "idle" /\ file = 0
  /\ envelopeId = NoRow

-----------------------------------------------------------------------------
Inbox == {f \in Files : place[f] = "inbox"}

DropEnvelope(f) ==
  /\ place[f] = "none"
  /\ place' = [place EXCEPT ![f] = "inbox"]
  /\ \E c \in Contents : content' = [content EXCEPT ![f] = c]
  /\ UNCHANGED <<aged, envelopes, decisions, tick, file, envelopeId>>

EnvelopeAges(f) ==
  /\ f \in Inbox \ aged
  /\ aged' = aged \cup {f}
  /\ UNCHANGED <<place, content, envelopes, decisions, tick, file, envelopeId>>

\* Mutant: an unreadable file is left where it is.
PollUnmoved ==
  /\ tick = "idle" /\ Inbox # {}
  /\ LET f == Min(Inbox) IN
       /\ file' = f
       /\ tick' = CASE content[f] = Unreadable -> "idle"
                    [] f \in aged -> "stale"
                    [] OTHER -> "accepted"
  /\ UNCHANGED <<place, content, aged, envelopes, decisions, envelopeId>>

\* poll, and the check of the age: only the first file is looked at, whatever
\* max_files_per_tick is.
PollEnvelope ==
  /\ tick = "idle" /\ Inbox # {}
  /\ LET f == Min(Inbox) IN
       /\ file' = f
       /\ tick' = CASE content[f] = Unreadable -> "bad"
                    [] f \in aged -> "stale"
                    [] OTHER -> "accepted"
  /\ UNCHANGED <<place, content, aged, envelopes, decisions, envelopeId>>

\* try_insert_envelope_v1_return_id; an error is logged.
InsertEnvelope ==
  /\ tick \in {"stale", "accepted"}
  /\ LET row == [file |-> file,
                 outcome |-> IF tick = "stale" THEN "stale" ELSE "done"]
     IN  \/ UNCHANGED <<envelopes, envelopeId>>
         \/ /\ envelopes' = envelopes \cup {row}
            /\ envelopeId' = IF tick = "stale" THEN envelopeId ELSE row
  /\ tick' = IF tick = "stale" THEN "bad" ELSE "decide"
  /\ UNCHANGED <<place, content, aged, decisions, file>>

\* _build_decision_v5_for_envelope
Guards(c) ==
  {g \in {"SPREAD_TOO_WIDE", "LIQUIDITY_NOT_OK"} :
     \/ g = "SPREAD_TOO_WIDE" /\ c.wide
     \/ g = "LIQUIDITY_NOT_OK" /\ "OK" \notin c.flags}

\* The column gets str() of the Enum's member, which names its class as well.
ActionText(c) ==
  IF Guards(c) = {} THEN "DecisionActionV5.ALLOW" ELSE "DecisionActionV5.WAIT"

\* try_insert_decision_v5; an error is logged, and the file is done with.
InsertDecision ==
  /\ tick = "decide"
  /\ \/ decisions' = decisions \cup
          {[file |-> file, envelope |-> envelopeId,
            action |-> ActionText(content[file])]}
     \/ UNCHANGED decisions
  /\ tick' = "done"
  /\ UNCHANGED <<place, content, aged, envelopes, file, envelopeId>>

\* Mutant: the next tick starts with the envelope_id of this one.
TickEndsKeepsId == tick' = "idle" /\ file' = 0 /\ UNCHANGED envelopeId

TickEnds == tick' = "idle" /\ file' = 0 /\ envelopeId' = NoRow

\* ack and _move_file, to the folder the tick has come to.
MoveFile ==
  /\ tick \in {"done", "bad"}
  /\ place' = [place EXCEPT ![file] = tick]
  /\ TickEnds
  /\ UNCHANGED <<content, aged, envelopes, decisions>>

\* What the move raises is logged: the next tick finds the file again.
MoveFileFails ==
  /\ tick \in {"done", "bad"}
  /\ TickEnds
  /\ UNCHANGED <<place, content, aged, envelopes, decisions>>

TickDies ==
  /\ tick # "down"
  /\ tick' = "down" /\ file' = 0 /\ envelopeId' = NoRow
  /\ UNCHANGED <<place, content, aged, envelopes, decisions>>

TickStarts ==
  /\ tick = "down"
  /\ tick' = "idle"
  /\ UNCHANGED <<place, content, aged, envelopes, decisions, file, envelopeId>>

TickStep == PollEnvelope \/ InsertEnvelope \/ InsertDecision

EnvelopesNext ==
  \/ \E f \in Files : DropEnvelope(f) \/ EnvelopeAges(f)
  \/ TickStep
  \/ MoveFile
  \/ MoveFileFails
  \/ TickDies
  \/ TickStarts

\* The loop goes on; a file that is moved again and again is moved at some time.
EnvelopesFairness ==
  /\ WF_envelopeVars(TickStep)
  /\ WF_envelopeVars(MoveFile \/ MoveFileFails)
  /\ \A f \in Files : SF_envelopeVars(file = f /\ MoveFile)

EnvelopesSpec ==
  EnvelopesInit /\ [][EnvelopesNext]_envelopeVars /\ EnvelopesFairness

-----------------------------------------------------------------------------
\* A decision names the accepted envelope of its own file, or none, although the
\* insert of the envelope may fail, a move may bring the file back, and other
\* files come in between.
DecisionsNameTheirEnvelope ==
  \A d \in decisions :
    d.envelope = NoRow \/ d.envelope = [file |-> d.file, outcome |-> "done"]

\* When the crashes end, every file leaves the inbox, though only the first one
\* is looked at and it comes back whenever it cannot be moved.
EnvelopesDrain ==
  <>[](tick # "down") =>
    \A f \in Files : place[f] = "inbox" ~> place[f] # "inbox"
=============================================================================

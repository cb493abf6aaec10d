----------------------------- MODULE SignalFiles -----------------------------
(***************************************************************************)
(* app/service.py, _FileSignalSourceV2: the signals directory is read once, *)
(* when the service starts; poll hands out the signals of the loaded files *)
(* in order; ack counts a file's verdicts and moves the file to _processed *)
(* or _failed with its last one.  The queue and the counts are in memory,  *)
(* the files are on the disk.                                              *)
(***************************************************************************)
EXTENDS Integers, Sequences, FiniteSets

CONSTANTS
  NumFiles,   \* the files that may appear, numbered in the order of their names
  Content     \* the signals in each; <<>> for a file that does not parse or
              \* validate, or that holds no signal

Files == 1 .. NumFiles

ASSUME FilesConstants ==
  /\ NumFiles \in Nat
  /\ DOMAIN Content = Files
  /\ \A f \in Files : Len(Content[f]) \in Nat

VARIABLES
  dir,         \* the directory each file is in
  queue,       \* the items loaded and not yet polled
  remaining,   \* _remaining: verdicts a loaded file still waits for
  worst,       \* _worst_outcome of each loaded file
  verdicts     \* history: the verdicts on a file's signals since it was loaded

filesVars == <<dir, queue, remaining, worst, verdicts>>

Dirs     == {"absent", "inbox", "processed", "failed"}
Outcomes == {"submitted", "duplicate", "rejected", "failed"}

\* An item is a signal's place: the file and the position in it.
ItemsOf(f) == {<<f, n>> : n \in 1 .. Len(Content[f])}
SignalAt(item) == Content[item[1]][item[2]]

FilesTypeOK ==
  /\ dir \in [Files -> Dirs]
  /\ queue \subseteq UNION {ItemsOf(f) : f \in Files}
  /\ remaining \in [Files -> Nat]
  /\ worst \in [Files -> Outcomes \cup {"processed"}]
  /\ verdicts \in [Files -> Seq(Outcomes)]

FilesInit ==
  /\ dir = [f \in Files |-> "absent"]
  /\ queue = {}
  /\ remaining = [f \in Files |-> 0]
  /\ worst = [f \in Files |-> "processed"]
  /\ verdicts = [f \in Files |-> <<>>]

-----------------------------------------------------------------------------
\* A file is dropped into the directory, by the operator or by the LLM adapter.
DropFile ==
  /\ \E f \in Files : dir[f] = "absent" /\ dir' = [dir EXCEPT ![f] = "inbox"]
  /\ UNCHANGED <<queue, remaining, worst, verdicts>>

Loadable == {f \in Files : dir[f] = "inbox" /\ Content[f] # <<>>}
Invalid  == {f \in Files : dir[f] = "inbox" /\ Content[f] = <<>>}

\* The directory is read.  A file that is invalid as a whole goes to _failed at
\* once; here as in Ack a move that raises is only logged.
Load ==
  /\ \E moved \in SUBSET Invalid :
       dir' = [f \in Files |-> IF f \in moved THEN "failed" ELSE dir[f]]
  /\ queue' = UNION {ItemsOf(f) : f \in Loadable}
  /\ remaining' =
       [f \in Files |-> IF f \in Loadable THEN Len(Content[f]) ELSE 0]
  /\ worst' = [f \in Files |-> "processed"]
  /\ verdicts' =
       [f \in Files |-> IF f \in Loadable THEN <<>> ELSE verdicts[f]]

Before(a, b) == a[1] < b[1] \/ (a[1] = b[1] /\ a[2] < b[2])

\* Mutant: polling empties the queue.
PollAll(item) ==
  /\ item \in queue
  /\ queue' = {}
  /\ UNCHANGED <<dir, remaining, worst, verdicts>>

\* The next item leaves the queue.
Poll(item) ==
  /\ item \in queue
  /\ \A other \in queue \ {item} : Before(item, other)
  /\ queue' = queue \ {item}
  /\ UNCHANGED <<dir, remaining, worst, verdicts>>

Severity(outcome) ==
  CASE outcome = "failed"   -> 3
    [] outcome = "rejected" -> 2
    [] OTHER                -> 1

\* Mutant: the last outcome decides.
LastOutcome(current, outcome) == outcome

\* _merge_outcome: the worse of the two.
Worse(current, outcome) ==
  IF Severity(outcome) > Severity(current) THEN outcome ELSE current

ArchiveFor(outcome) == IF outcome = "failed" THEN "failed" ELSE "processed"

\* One verdict more on a file; the last one moves the file.
Ack(f, outcome) ==
  LET final == Worse(worst[f], outcome) IN
  /\ remaining[f] > 0
  /\ remaining' = [remaining EXCEPT ![f] = @ - 1]
  /\ verdicts' = [verdicts EXCEPT ![f] = Append(@, outcome)]
  /\ \/ /\ remaining[f] > 1
        /\ worst' = [worst EXCEPT ![f] = final]
        /\ UNCHANGED dir
     \/ /\ remaining[f] = 1
        /\ worst' = [worst EXCEPT ![f] = "processed"]
        /\ dir' \in {dir, [dir EXCEPT ![f] = ArchiveFor(final)]}
  /\ UNCHANGED queue

\* The process dies: the files stay where they are.
ForgetFiles ==
  /\ queue' = {}
  /\ remaining' = [f \in Files |-> 0]
  /\ worst' = [f \in Files |-> "processed"]
  /\ UNCHANGED <<dir, verdicts>>

-----------------------------------------------------------------------------
Verdicts(f) == {verdicts[f][n] : n \in DOMAIN verdicts[f]}
AllJudged(f) == Content[f] # <<>> /\ Len(verdicts[f]) = Len(Content[f])

\* A file leaves the inbox only with a verdict on every signal in it, and goes to
\* _failed exactly when one of them failed, wherever in the file that one is, or
\* when the file is invalid (_FileSignalSourceV2, docstring).
ArchiveMatchesVerdicts ==
  \A f \in Files :
    /\ dir[f] = "processed" => AllJudged(f) /\ "failed" \notin Verdicts(f)
    /\ dir[f] = "failed" =>
         Content[f] = <<>> \/ (AllJudged(f) /\ "failed" \in Verdicts(f))
=============================================================================

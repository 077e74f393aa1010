------------------------------ MODULE ExternalSort ------------------------------
(***************************************************************************)
(* externalSortLines: a spool file is sorted in bounded memory.  Its lines *)
(* are read into sorted runs, files of the workspace named by a generation *)
(* and an index; the runs of a generation are merged in groups of at most  *)
(* FanIn into the runs of the next one, and the last run becomes the       *)
(* sorted file.                                                            *)
(*                                                                         *)
(* A line is what it decodes to together with the place of its text in the *)
(* order of texts, a tuple that is compared like text.  Every line is      *)
(* charged one unit of the byte budget, so that a run holds RunLines.      *)
(***************************************************************************)
EXTENDS Integers, Sequences, FiniteSets

CONSTANTS
  RunLines,      \* lines the byte budget admits to a run
  FanInByBytes,  \* inputs of a merge the byte budget admits
  MaxOpenFiles   \* descriptors a sort may hold

MaxMergeFanIn == 16

Smaller(a, b) == IF a < b THEN a ELSE b

(* Mutant: the output of the merge is forgotten.                           *)
FanInWithoutOutput == Smaller(MaxMergeFanIn, Smaller(FanInByBytes, MaxOpenFiles))

FanIn == Smaller(MaxMergeFanIn, Smaller(FanInByBytes, MaxOpenFiles - 1))

(* Limits that do not admit a merge of two are refused before the spool is *)
(* read.                                                                   *)
ASSUME SortAssumption ==
  /\ RunLines \in Nat \ {0}
  /\ FanInByBytes \in Nat \ {0, 1}
  /\ MaxOpenFiles \in Nat \ {0, 1, 2}

VARIABLES
  sorting,  \* the stage of the sort
  input,    \* the lines of the spool
  read,     \* how many of them have been read
  lines,    \* the lines of the run that is being collected
  runs,     \* the generated files, by generation and index
  pass,     \* the merge loop: generation, runs in it, next group, runs made
  heads,    \* what the iterators of a merge have left
  sorted    \* the sorted file

sorter == <<sorting, input, read, lines, runs, pass, heads, sorted>>

SortStage == {"idle", "reading", "grouping", "merging", "sorted", "failed"}

NoRuns == [name \in {} |-> <<>>]
FirstPass == [generation |-> 0, active |-> 0, offset |-> 0, next |-> 0]

SortInit ==
  /\ sorting = "idle"
  /\ input = <<>> /\ read = 0 /\ lines = <<>> /\ heads = <<>> /\ sorted = <<>>
  /\ runs = NoRuns
  /\ pass = FirstPass

(* The text of one line before the text of another.                        *)
Before(a, b) ==
  \E i \in DOMAIN a.text \cap DOMAIN b.text :
    /\ a.text[i] < b.text[i]
    /\ \A j \in 1..i - 1 : a.text[j] = b.text[j]

InOrder(s) == \A i \in 1..Len(s) - 1 : ~Before(s[i + 1], s[i])

(* Sorting in memory, which keeps lines of equal text as they are.         *)
Place(s, i) ==
  Cardinality({j \in DOMAIN s :
                 Before(s[j], s[i]) \/ (j <= i /\ ~Before(s[i], s[j]))})
InMemory(s) == [k \in DOMAIN s |-> s[CHOOSE i \in DOMAIN s : Place(s, i) = k]]

With(name, s) == [n \in DOMAIN runs \union {name} |-> IF n = name THEN s ELSE runs[n]]
Without(names) == [n \in DOMAIN runs \ names |-> runs[n]]

(***************************************************************************)
(* Collecting the runs.                                                    *)
(***************************************************************************)
BeginSort(spool) ==
  /\ sorting' = "reading"
  /\ input' = spool
  /\ read' = 0 /\ lines' = <<>> /\ heads' = <<>> /\ sorted' = <<>>
  /\ runs' = NoRuns
  /\ pass' = FirstPass

ReadLine ==
  /\ sorting = "reading"
  /\ read < Len(input) /\ Len(lines) < RunLines
  /\ lines' = Append(lines, input[read + 1])
  /\ read' = read + 1
  /\ UNCHANGED <<sorting, input, runs, pass, heads, sorted>>

(* The next line does not fit the run, or there is none.                   *)
FlushRun ==
  /\ sorting = "reading" /\ lines # <<>>
  /\ read = Len(input) \/ Len(lines) = RunLines
  /\ runs' = With(<<0, pass.active>>, InMemory(lines))
  /\ pass' = [pass EXCEPT !.active = @ + 1]
  /\ lines' = <<>>
  /\ UNCHANGED <<sorting, input, read, heads, sorted>>

AllRead ==
  /\ sorting = "reading"
  /\ read = Len(input) /\ lines = <<>>
  /\ sorting' = "grouping"
  /\ UNCHANGED <<input, read, lines, runs, pass, heads, sorted>>

(***************************************************************************)
(* Merging a generation, group by group.                                   *)
(***************************************************************************)
GroupSize == Smaller(FanIn, pass.active - pass.offset)
Group == {<<pass.generation, pass.offset + i>> : i \in 0..GroupSize - 1}
Output == <<pass.generation + 1, pass.next>>

AtGroup == sorting = "grouping" /\ pass.active > 1 /\ pass.offset < pass.active

GroupDone == pass' = [pass EXCEPT !.offset = @ + FanIn, !.next = @ + 1]

(* A group of one run is renamed.                                          *)
RenameRun ==
  /\ AtGroup /\ GroupSize = 1
  /\ runs' = [n \in (DOMAIN runs \ Group) \union {Output} |->
                IF n = Output THEN runs[<<pass.generation, pass.offset>>] ELSE runs[n]]
  /\ GroupDone
  /\ UNCHANGED <<sorting, input, read, lines, heads, sorted>>

StartMerge ==
  /\ AtGroup /\ GroupSize > 1
  /\ heads' = [i \in 1..GroupSize |-> runs[<<pass.generation, pass.offset + i - 1>>]]
  /\ runs' = With(Output, <<>>)
  /\ sorting' = "merging"
  /\ UNCHANGED <<input, read, lines, pass, sorted>>

Waiting == {i \in DOMAIN heads : heads[i] # <<>>}

(* Mutant: the first iterator that has a line is selected.                 *)
FirstWaiting(i) == i \in Waiting /\ \A j \in Waiting : j >= i

(* The iterator at the least line; of equal lines, the one of the earliest *)
(* run.                                                                    *)
Selected(i) ==
  /\ i \in Waiting
  /\ \A j \in Waiting :
       /\ ~Before(Head(heads[j]), Head(heads[i]))
       /\ j < i => Before(Head(heads[i]), Head(heads[j]))

MergeLine ==
  /\ sorting = "merging"
  /\ \E i \in DOMAIN heads :
       /\ Selected(i)
       /\ runs' = [runs EXCEPT ![Output] = Append(@, Head(heads[i]))]
       /\ heads' = [heads EXCEPT ![i] = Tail(@)]
  /\ UNCHANGED <<sorting, input, read, lines, pass, sorted>>

(* The merged runs are removed.                                            *)
EndMerge ==
  /\ sorting = "merging" /\ Waiting = {}
  /\ runs' = Without(Group)
  /\ heads' = <<>>
  /\ sorting' = "grouping"
  /\ GroupDone
  /\ UNCHANGED <<input, read, lines, sorted>>

(* Mutant: only full groups are counted.                                   *)
FullGroups == pass' = [generation |-> pass.generation + 1, active |-> pass.active \div FanIn,
                       offset |-> 0, next |-> 0]

Advance == pass' = [generation |-> pass.generation + 1, active |-> pass.next,
                    offset |-> 0, next |-> 0]

NextGeneration ==
  /\ sorting = "grouping" /\ pass.active > 1 /\ pass.offset >= pass.active
  /\ Advance
  /\ UNCHANGED <<sorting, input, read, lines, runs, heads, sorted>>

(* The last run is renamed, or an empty file is written.                   *)
EndSort ==
  /\ sorting = "grouping" /\ pass.active <= 1
  /\ sorted' = IF pass.active = 0 THEN <<>> ELSE runs[<<pass.generation, 0>>]
  /\ runs' = Without({<<pass.generation, 0>>})
  /\ sorting' = "sorted"
  /\ UNCHANGED <<input, read, lines, pass, heads>>

Sorts == sorting \in {"reading", "grouping", "merging"}

(* Mutant: only the runs of this generation are removed.                   *)
SweepGeneration == runs' = Without({n \in DOMAIN runs : n[1] = pass.generation})

CleanupGeneratedRuns == runs' = NoRuns

(* Any step may fail, and the generated files are removed.  A fault while  *)
(* they are removed is left out: the workspace is removed next.            *)
FailSort ==
  /\ Sorts
  /\ CleanupGeneratedRuns
  /\ sorting' = "failed"
  /\ lines' = <<>> /\ heads' = <<>>
  /\ UNCHANGED <<input, read, pass, sorted>>

SortStep ==
  \/ ReadLine \/ FlushRun \/ AllRead
  \/ RenameRun \/ StartMerge \/ MergeLine \/ EndMerge \/ NextGeneration
  \/ EndSort

(* The caller has the sorted file or the error.                            *)
SortReturns ==
  /\ sorting' = "idle"
  /\ input' = <<>> /\ read' = 0 /\ lines' = <<>> /\ heads' = <<>> /\ sorted' = <<>>
  /\ runs' = NoRuns
  /\ pass' = FirstPass

(***************************************************************************)
(* Properties.                                                             *)
(***************************************************************************)
Times(s, line) == Cardinality({i \in DOMAIN s : s[i] = line})

(* The file externalSortLines returns has the lines of the spool, each as  *)
(* often as the spool has it, in the order of their texts; nothing that    *)
(* was generated on the way is left beside it.                             *)
SortedIsWhole ==
  sorting = "sorted" =>
    /\ InOrder(sorted)
    /\ Len(sorted) = Len(input)
    /\ \A i \in DOMAIN input : Times(sorted, input[i]) = Times(input, input[i])
    /\ DOMAIN runs = {}

(* A generated file is created under a name that is free: open(..., "wx")  *)
(* of a run or of a merge never finds the file there, and every run of a   *)
(* group is there to be read or renamed.                                   *)
NamesAreFree ==
  /\ sorting = "reading" => <<0, pass.active>> \notin DOMAIN runs
  /\ AtGroup => Output \notin DOMAIN runs /\ Group \subseteq DOMAIN runs

(* A merge holds its inputs, numbered from 1, and its output open, and a   *)
(* sort never holds more than maxOpenFiles.                                *)
DescriptorsAreBounded ==
  sorting = "merging" => \A i \in DOMAIN heads : i + 1 <= MaxOpenFiles
=============================================================================

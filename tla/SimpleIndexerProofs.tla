------------------------ MODULE SimpleIndexerProofs ------------------------
(***************************************************************************)
(* Theorems of SimpleIndexer, and in the last part of RestApi, for every   *)
(* number of processes of either program, every batch size, page size and  *)
(* bound.                                                                  *)
(***************************************************************************)
EXTENDS RestApi, FiniteSetTheorems, TableLemmas

USE ChainAssumption, SimpleAssumption

-----------------------------------------------------------------------------
(* Type correctness.  A step of a process changes its own record only.     *)
LEMMA DownType == Down \in Process
<1>1. NoBound \in Hash
  BY DEF NoBound, Hash, Heights
<1>2. QED
  BY <1>1 DEF Down, At, Process, Heights

LEMMA ExitType ==
  ASSUME TypeOK, NEW i \in Indexers, Exit(i)
  PROVE  proc' \in [Indexers -> Process]
BY DownType DEF TypeOK, Exit

LEMMA PollType ==
  ASSUME TypeOK, NEW i \in Indexers, Poll(i)
  PROVE  proc' \in [Indexers -> Process]
<1>1. proc[i].isRunning \in BOOLEAN /\ proc[i].bound \in Hash
  BY DEF TypeOK, Process
<1>2. At("poll", FALSE, proc[i].isRunning, proc[i].bound) \in Process
  BY <1>1 DEF At, Process, Heights
<1>3. QED
  BY <1>2 DEF TypeOK, Poll

LEMMA ThrowType ==
  ASSUME TypeOK, NEW i \in Indexers, Throw(i)
  PROVE  proc' \in [Indexers -> Process]
BY ExitType, PollType DEF Throw

LEMMA ReturnType ==
  ASSUME TypeOK, NEW i \in Indexers, Return(i)
  PROVE  proc' \in [Indexers -> Process]
<1>1. CASE proc[i].startup
  <2>1. proc[i] \in Process /\ proc[i].last + 1 \in 0..(MaxHeight + 1)
    BY DEF TypeOK, Process, Heights
  <2>2. QED
    BY <1>1, <2>1 DEF Return, TypeOK, Process, Heights
<1>2. CASE ~ proc[i].startup
  BY <1>2, PollType DEF Return
<1>3. QED
  BY <1>1, <1>2

LEMMA FetchingType ==
  ASSUME TypeOK, NEW i \in Indexers, Fetching(i)
  PROVE  proc[i].next \in Heights /\ proc[i].next + 1 \in 0..(MaxHeight + 1)
BY DEF TypeOK, Fetching, Process, Heights

LEMMA FetchErrorType ==
  ASSUME TypeOK, NEW i \in Indexers, NEW error, Fetching(i), FetchError(i, error)
  PROVE  proc' \in [Indexers -> Process] /\ lost' \subseteq Heights
<1>1. CASE Throw(i) /\ UNCHANGED lost
  BY <1>1, ThrowType DEF TypeOK
<1>2. CASE /\ proc' = [proc EXCEPT ![i].next = @ + 1]
           /\ lost' = lost \cup {proc[i].next}
  <2>1. proc' \in [Indexers -> Process]
    BY <1>2, FetchingType DEF TypeOK, Process
  <2>2. QED
    BY <1>2, <2>1, FetchingType DEF TypeOK
<1>3. QED
  BY <1>1, <1>2 DEF FetchError

LEMMA SaveErrorType ==
  ASSUME TypeOK, NEW i \in Indexers, NEW error, SaveError(i, error)
  PROVE  proc' \in [Indexers -> Process] /\ lost' \subseteq Heights
<1>1. Numbers(proc[i].raw) \subseteq Heights
  BY DEF TypeOK, Process, Numbers, Block
<1>2. QED
  BY <1>1, ThrowType, ReturnType DEF SaveError, TypeOK

LEMMA FaultType ==
  ASSUME TypeOK, Fault
  PROVE  faults' \in 0..MaxFaults
BY DEF TypeOK, Fault

(* Every variable keeps its type, in every interleaving of the processes   *)
(* with the node, the faults and each other.                               *)
LEMMA TypeStep == TypeOK /\ [Next]_vars => TypeOK'
<1> SUFFICES ASSUME TypeOK, [Next]_vars
             PROVE  TypeOK'
  OBVIOUS
<1> USE DEF vars, chainVars, tableVars
<1>1. CASE NodeStep
  <2>1. ChainTypeOK'
    BY <1>1, ChainStepType DEF NodeStep, TypeOK
  <2>2. QED
    BY <1>1, <2>1 DEF NodeStep, TypeOK
<1>2. CASE UNCHANGED vars
  BY <1>2 DEF TypeOK, ChainTypeOK
<1>3. ASSUME NEW i \in Indexers, Progress(i)
      PROVE  TypeOK'
  <2>0. proc[i] \in Process
    BY DEF TypeOK
  <2>1. CASE Start(i)
    BY <2>0, <2>1 DEF Start, TypeOK, ChainTypeOK, Process
  <2>2. CASE ReadMax(i)
    <3>1. ResumeFrom(MaxNumber(blocks)) \in 0..(MaxHeight + 1)
      BY MaxNumberProperty DEF ResumeFrom, TypeOK, Heights, NoBlock
    <3>2. QED
      BY <2>0, <2>2, <3>1 DEF ReadMax, TypeOK, ChainTypeOK, Process
  <2>3. CASE ReadHead(i)
    BY <2>0, <2>3 DEF ReadHead, TypeOK, ChainTypeOK, Process
  <2>4. CASE NextStartupBatch(i)
    <3>1. BatchEnd(proc[i].next, proc[i].latest) \in Heights
      BY <2>0, <2>4 DEF NextStartupBatch, BatchEnd, Process, Heights
    <3>2. QED
      BY <2>0, <2>4, <3>1 DEF NextStartupBatch, TypeOK, ChainTypeOK, Process
  <2>5. CASE StartupDone(i)
    BY <2>5, PollType DEF StartupDone, TypeOK, ChainTypeOK
  <2>6. CASE FetchBlock(i)
    <3>1. BlockAt(proc[i].next) \in Block
      BY <2>6, FetchingType, BlockAtProperty DEF FetchBlock, TypeOK
    <3>2. QED
      BY <2>0, <2>6, <3>1, FetchingType DEF FetchBlock, TypeOK, ChainTypeOK, Process
  <2>7. CASE FetchMissing(i)
    BY <2>7, FetchErrorType DEF FetchMissing, TypeOK, ChainTypeOK
  <2>8. CASE NothingFetched(i)
    BY <2>8, ReturnType DEF NothingFetched, TypeOK, ChainTypeOK
  <2>9. CASE SaveBatch(i)
    <3>1. blocks' \subseteq Block
      BY <2>0, <2>9 DEF SaveBatch, InsertRows, TypeOK, Process
    <3>2. QED
      BY <2>9, <3>1, ReturnType DEF SaveBatch, TypeOK, ChainTypeOK
  <2>10. CASE SaveConflicts(i)
    BY <2>10, SaveErrorType DEF SaveConflicts, TypeOK, ChainTypeOK
  <2>11. CASE PollHead(i)
    BY <2>0, <2>11 DEF PollHead, TypeOK, ChainTypeOK, Process
  <2>12. CASE PollMax(i)
    <3>1. MaxNumber(blocks) \in Heights \cup {NoBlock}
      BY MaxNumberProperty DEF TypeOK
    <3>2. CASE Behind(proc[i].latest, MaxNumber(blocks))
      <4>1. proc[i].latest \in Heights /\ MaxNumber(blocks) + 1 \in 0..(MaxHeight + 1)
        BY <2>0, <3>1 DEF Process, Heights, NoBlock
      <4>2. /\ proc' = [proc EXCEPT ![i].pc = "fetch", ![i].latest = 0,
                                    ![i].next = MaxNumber(blocks) + 1,
                                    ![i].last = proc[i].latest]
            /\ UNCHANGED <<chainVars, tableVars, faults>>
        BY <2>12, <3>2 DEF PollMax
      <4>3. 0 \in Heights
        BY DEF Heights
      <4>4. proc' \in [Indexers -> Process]
        BY <2>0, <4>1, <4>2, <4>3 DEF TypeOK, Process
      <4>5. QED
        BY <4>2, <4>4 DEF TypeOK, ChainTypeOK
    <3>3. CASE ~ Behind(proc[i].latest, MaxNumber(blocks))
      BY <2>12, <3>3, PollType DEF PollMax, TypeOK, ChainTypeOK
    <3>4. QED
      BY <3>2, <3>3
  <2>13. CASE Terminate(i)
    BY <2>13, ExitType DEF Terminate, TypeOK, ChainTypeOK
  <2>14. CASE ValidationFails(i)
    BY <2>14, SaveErrorType DEF ValidationFails, TypeOK, ChainTypeOK
  <2>15. QED
    BY <1>3, <2>1, <2>2, <2>3, <2>4, <2>5, <2>6, <2>7, <2>8, <2>9, <2>10,
       <2>11, <2>12, <2>13, <2>14 DEF Progress
<1>4. ASSUME NEW i \in Indexers, Disturbance(i)
      PROVE  TypeOK'
  <2>1. CASE FetchFails(i)
    BY <2>1, FetchErrorType, FaultType DEF FetchFails, TypeOK, ChainTypeOK
  <2>2. CASE SaveFails(i)
    BY <2>2, SaveErrorType, FaultType DEF SaveFails, TypeOK, ChainTypeOK
  <2>3. CASE PollFails(i)
    BY <2>3, ThrowType, FaultType DEF PollFails, TypeOK, ChainTypeOK
  <2>4. CASE StopSignal(i)
    <3>1. proc' \in [Indexers -> Process]
      BY <2>4 DEF StopSignal, TypeOK, Process
    <3>2. QED
      BY <2>4, <3>1, FaultType DEF StopSignal, TypeOK, ChainTypeOK
  <2>5. CASE Crash(i)
    BY <2>5, ExitType, FaultType DEF Crash, TypeOK, ChainTypeOK
  <2>6. CASE DayPasses(i)
    <3>1. BoundNow \in Hash
      BY BlockAtProperty DEF BoundNow, TypeOK, ChainTypeOK, Block
    <3>2. proc' \in [Indexers -> Process]
      BY <2>6, <3>1 DEF DayPasses, TypeOK, Process
    <3>3. QED
      BY <2>6, <3>2, FaultType DEF DayPasses, TypeOK, ChainTypeOK
  <2>7. QED
    BY <1>4, <2>1, <2>2, <2>3, <2>4, <2>5, <2>6 DEF Disturbance
<1>5. QED
  BY <1>1, <1>2, <1>3, <1>4 DEF Next

LEMMA TypeInit == Init => TypeOK
<1> SUFFICES ASSUME Init PROVE TypeOK
  OBVIOUS
<1>1. ChainTypeOK
  BY DEF Init, ChainInit, ChainTypeOK, Heights, NotMined
<1>2. QED
  BY <1>1, DownType DEF Init, TypeOK

(* Every variable keeps its type, for any number of processes.             *)
THEOREM SimpleTypeCorrect == Spec => []TypeOK
BY TypeInit, TypeStep, PTL DEF Spec

-----------------------------------------------------------------------------
(* Holes.  A number is settled when it is stored or was given up.  The     *)
(* invariant follows the numbers a process has passed: it resumes above    *)
(* settled numbers only, and within a batch the numbers it has passed are  *)
(* settled or among the blocks it is about to insert.                      *)
Settled == Numbers(blocks) \cup lost

Passed(p, settled) ==
  /\ p.pc \in {"readHead", "loop"} => \A n \in Heights : n < p.next => n \in settled
  /\ p.pc = "fetch" =>
       /\ \A n \in Heights : n < p.next => n \in settled \cup Numbers(p.raw)
       /\ \A b \in p.raw : b.number <= p.last
  /\ p.pc # "fetch" => p.raw = {}

HolesInv ==
  /\ TypeOK
  /\ HolesWereGivenUp
  /\ \A i \in Indexers : Passed(proc[i], Settled)

(* What is settled stays settled.                                          *)
LEMMA PassedIsStable ==
  ASSUME NEW p \in Process, NEW S, NEW T, S \subseteq T, Passed(p, S)
  PROVE  Passed(p, T)
BY DEF Passed

(* A step of one process that stores nothing keeps the invariant if its    *)
(* own record does.                                                        *)
LEMMA OneProcessSteps ==
  ASSUME HolesInv, NEW i \in Indexers, UNCHANGED blocks, lost \subseteq lost',
         proc' = [proc EXCEPT ![i] = proc'[i]], Passed(proc[i]', Settled')
  PROVE  HolesWereGivenUp' /\ \A j \in Indexers : Passed(proc[j]', Settled')
<1>1. Settled \subseteq Settled'
  BY DEF Settled
<1>2. HolesWereGivenUp'
  BY <1>1 DEF HolesInv, HolesWereGivenUp, Settled
<1>3. ASSUME NEW j \in Indexers, j # i
      PROVE  Passed(proc[j]', Settled')
  <2>1. proc[j]' = proc[j] /\ proc[j] \in Process
    BY <1>3 DEF HolesInv, TypeOK
  <2>2. QED
    BY <1>1, <2>1, PassedIsStable DEF HolesInv
<1>4. QED
  BY <1>2, <1>3

LEMMA ThrowPasses ==
  ASSUME TypeOK, NEW i \in Indexers, Throw(i), NEW S
  PROVE  Passed(proc[i]', S) /\ proc' = [proc EXCEPT ![i] = proc'[i]]
BY DEF Throw, Exit, Poll, Down, At, Passed, TypeOK

(* A batch that returns has settled the numbers up to its last.            *)
LEMMA ReturnPasses ==
  ASSUME TypeOK, NEW i \in Indexers, Return(i), Fetched(i), NEW S,
         \A n \in Heights : n < proc[i].next => n \in S
  PROVE  Passed(proc[i]', S) /\ proc' = [proc EXCEPT ![i] = proc'[i]]
<1>0. proc[i] \in Process
  BY DEF TypeOK
<1>1. CASE proc[i].startup
  <2>1. /\ proc[i].pc' = "loop"
        /\ proc[i].next' = proc[i].last + 1
        /\ proc[i].raw' = {}
        /\ proc' = [proc EXCEPT ![i] = proc'[i]]
    BY <1>0, <1>1 DEF Return, TypeOK, Process
  <2>2. \A n \in Heights : n < proc[i].last + 1 => n < proc[i].next
    BY <1>0 DEF Fetched, Process, Heights
  <2>3. QED
    BY <2>1, <2>2 DEF Passed
<1>2. CASE ~ proc[i].startup
  BY <1>2 DEF Return, Poll, At, Passed, TypeOK
<1>3. QED
  BY <1>1, <1>2

LEMMA FetchErrorPasses ==
  ASSUME HolesInv, NEW i \in Indexers, NEW error, Fetching(i),
         FetchError(i, error), UNCHANGED blocks
  PROVE  /\ lost \subseteq lost'
         /\ Passed(proc[i]', Settled')
         /\ proc' = [proc EXCEPT ![i] = proc'[i]]
<1>0. TypeOK /\ proc[i] \in Process /\ Passed(proc[i], Settled)
  BY DEF HolesInv, TypeOK
<1>1. CASE Throw(i) /\ UNCHANGED lost
  BY <1>0, <1>1, ThrowPasses
<1>2. CASE /\ proc' = [proc EXCEPT ![i].next = @ + 1]
           /\ lost' = lost \cup {proc[i].next}
  <2>1. /\ proc[i].pc' = "fetch" /\ proc[i].pc = "fetch"
        /\ proc[i].next' = proc[i].next + 1
        /\ proc[i].raw' = proc[i].raw /\ proc[i].last' = proc[i].last
        /\ proc' = [proc EXCEPT ![i] = proc'[i]]
    BY <1>0, <1>2 DEF TypeOK, Process, Fetching
  <2>2. \A n \in Heights : n < proc[i].next + 1 => n < proc[i].next \/ n = proc[i].next
    BY <1>0 DEF Process, Heights
  <2>3. \A n \in Heights : n < proc[i].next' => n \in Settled' \cup Numbers(proc[i].raw')
    BY <1>0, <1>2, <2>1, <2>2 DEF Passed, Settled
  <2>4. QED
    BY <1>0, <1>2, <2>1, <2>3 DEF Passed
<1>3. QED
  BY <1>1, <1>2 DEF FetchError

LEMMA SaveErrorPasses ==
  ASSUME HolesInv, NEW i \in Indexers, NEW error, Fetched(i),
         SaveError(i, error), UNCHANGED blocks
  PROVE  /\ lost \subseteq lost'
         /\ Passed(proc[i]', Settled')
         /\ proc' = [proc EXCEPT ![i] = proc'[i]]
<1>0. TypeOK /\ proc[i] \in Process /\ Passed(proc[i], Settled)
  BY DEF HolesInv, TypeOK
<1>1. CASE Throw(i) /\ UNCHANGED lost
  BY <1>0, <1>1, ThrowPasses
<1>2. CASE proc[i].startup /\ Return(i) /\ lost' = lost \cup Numbers(proc[i].raw)
  <2>1. \A n \in Heights : n < proc[i].next => n \in Settled'
    BY <1>0, <1>2 DEF Passed, Settled, Fetched
  <2>2. QED
    BY <1>0, <1>2, <2>1, ReturnPasses
<1>3. CASE ~ proc[i].startup /\ Return(i) /\ lost' = lost
  BY <1>0, <1>3 DEF Return, Poll, At, Passed, TypeOK
<1>4. QED
  BY <1>1, <1>2, <1>3 DEF SaveError

(* The commit of a batch: the new maximum is an old one or in the batch,   *)
(* and every number of the batch below it is settled now.                  *)
LEMMA CommitFillsTheBatch ==
  ASSUME HolesInv, NEW i \in Indexers, SaveBatch(i), TypeOK'
  PROVE  HolesWereGivenUp' /\ \A j \in Indexers : Passed(proc[j]', Settled')
<1>0. /\ TypeOK /\ proc[i] \in Process /\ Passed(proc[i], Settled)
      /\ proc[i].pc = "fetch" /\ Return(i) /\ Fetched(i)
      /\ blocks' = blocks \cup proc[i].raw /\ lost' = lost
  BY DEF HolesInv, TypeOK, SaveBatch, InsertRows, Fetched
<1>1. Settled \subseteq Settled'
  BY <1>0 DEF Settled, Numbers
<1>2. \A n \in Heights : n < proc[i].next => n \in Settled'
  BY <1>0 DEF Passed, Settled, Numbers
<1>3. Passed(proc[i]', Settled') /\ proc' = [proc EXCEPT ![i] = proc'[i]]
  BY <1>0, <1>2, ReturnPasses
<1>4. ASSUME NEW j \in Indexers, j # i
      PROVE  Passed(proc[j]', Settled')
  <2>1. proc[j]' = proc[j] /\ proc[j] \in Process
    BY <1>0, <1>3, <1>4 DEF TypeOK
  <2>2. QED
    BY <1>1, <2>1, PassedIsStable DEF HolesInv
<1>5. ASSUME NEW n \in Heights, n <= MaxNumber(blocks')
      PROVE  n \in Settled'
  <2>1. blocks' # {} /\ blocks' \in SUBSET Block
    BY <1>5 DEF TypeOK, MaxNumber, NoBlock, Heights
  <2>2. PICK r \in blocks' : r.number = MaxNumber(blocks') /\ r \in Block
    BY <2>1, MaxNumberOfNonEmpty DEF Numbers
  <2>3. CASE r \in blocks
    <3>1. r.number <= MaxNumber(blocks) /\ MaxNumber(blocks) \in Heights \cup {NoBlock}
      BY <1>0, <2>3, MaxNumberProperty DEF TypeOK
    <3>2. n <= MaxNumber(blocks)
      BY <1>5, <2>2, <3>1 DEF Block, Heights, NoBlock
    <3>3. QED
      BY <1>1, <3>2 DEF HolesInv, HolesWereGivenUp, Settled
  <2>4. CASE r \in proc[i].raw
    <3>1. r.number <= proc[i].last /\ proc[i].last < proc[i].next
      BY <1>0, <2>4 DEF Passed, Fetched, Process, Heights
    <3>2. n < proc[i].next
      BY <1>0, <1>5, <2>2, <3>1 DEF Block, Process, Heights
    <3>3. QED
      BY <1>2, <3>2
  <2>5. QED
    BY <1>0, <2>2, <2>3, <2>4
<1>6. HolesWereGivenUp'
  BY <1>5 DEF HolesWereGivenUp, Settled
<1>7. QED
  BY <1>3, <1>4, <1>6

LEMMA HolesStep == HolesInv /\ [Next]_vars => HolesInv'
<1> SUFFICES ASSUME HolesInv, [Next]_vars
             PROVE  HolesInv'
  OBVIOUS
<1>0. TypeOK /\ TypeOK'
  BY TypeStep DEF HolesInv
<1> USE DEF tableVars
<1>1. CASE NodeStep \/ UNCHANGED vars
  <2>1. UNCHANGED <<blocks, lost, proc>>
    BY <1>1 DEF NodeStep, vars
  <2>2. QED
    BY <1>0, <2>1 DEF HolesInv, HolesWereGivenUp, Settled
<1>2. ASSUME NEW i \in Indexers, Progress(i)
      PROVE  HolesInv'
  <2>0. proc[i] \in Process /\ Passed(proc[i], Settled)
    BY DEF HolesInv, TypeOK
  <2> DEFINE Quiet == /\ UNCHANGED blocks /\ lost \subseteq lost'
                      /\ proc' = [proc EXCEPT ![i] = proc'[i]]
                      /\ Passed(proc[i]', Settled')
  <2>1. CASE Start(i)
    <3>1. Quiet
      BY <1>0, <2>0, <2>1 DEF Start, TypeOK, Process, Passed, Settled
    <3>2. QED
      BY <1>0, <3>1, OneProcessSteps DEF HolesInv
  <2>2. CASE ReadMax(i)
    <3>1. MaxNumber(blocks) \in Heights \cup {NoBlock}
      BY <1>0, MaxNumberProperty DEF TypeOK
    <3>2. \A n \in Heights : n < ResumeFrom(MaxNumber(blocks)) => n <= MaxNumber(blocks)
      BY <3>1 DEF ResumeFrom, Heights, NoBlock
    <3>3. \A n \in Heights : n < ResumeFrom(MaxNumber(blocks)) => n \in Settled
      BY <3>2 DEF HolesInv, HolesWereGivenUp, Settled
    <3>4. /\ proc[i].pc' = "readHead" /\ proc[i].raw' = {}
          /\ proc[i].next' = ResumeFrom(MaxNumber(blocks))
          /\ proc' = [proc EXCEPT ![i] = proc'[i]]
          /\ UNCHANGED <<blocks, lost>>
      BY <1>0, <2>0, <2>2 DEF ReadMax, TypeOK, Process, Passed
    <3>5. Settled' = Settled
      BY <3>4 DEF Settled
    <3>6. Quiet
      BY <3>3, <3>4, <3>5 DEF Passed
    <3>7. QED
      BY <1>0, <3>6, OneProcessSteps DEF HolesInv
  <2>3. CASE ReadHead(i)
    <3>1. Quiet
      BY <1>0, <2>0, <2>3 DEF ReadHead, TypeOK, Process, Passed, Settled
    <3>2. QED
      BY <1>0, <3>1, OneProcessSteps DEF HolesInv
  <2>4. CASE NextStartupBatch(i)
    <3>1. Quiet
      BY <1>0, <2>0, <2>4 DEF NextStartupBatch, TypeOK, Process, Passed, Settled
    <3>2. QED
      BY <1>0, <3>1, OneProcessSteps DEF HolesInv
  <2>5. CASE StartupDone(i)
    <3>1. Quiet
      BY <1>0, <2>0, <2>5 DEF StartupDone, Poll, At, TypeOK, Passed
    <3>2. QED
      BY <1>0, <3>1, OneProcessSteps DEF HolesInv
  <2>6. CASE FetchBlock(i)
    <3>1. /\ proc[i].next \in Heights
          /\ BlockAt(proc[i].next).number = proc[i].next
      BY <1>0, <2>6, FetchingType, BlockAtProperty DEF FetchBlock, TypeOK
    <3>2. /\ proc[i].pc = "fetch" /\ proc[i].pc' = "fetch"
          /\ proc[i].next' = proc[i].next + 1
          /\ proc[i].raw' = proc[i].raw \cup {BlockAt(proc[i].next)}
          /\ proc[i].last' = proc[i].last /\ proc[i].next <= proc[i].last
          /\ proc' = [proc EXCEPT ![i] = proc'[i]]
          /\ UNCHANGED <<blocks, lost>>
      BY <1>0, <2>0, <2>6 DEF FetchBlock, Fetching, TypeOK, Process
    <3>3. \A n \in Heights : n < proc[i].next + 1 => n < proc[i].next \/ n = proc[i].next
      BY <3>1 DEF Heights
    <3>4. \A n \in Heights : n < proc[i].next' => n \in Settled' \cup Numbers(proc[i].raw')
      BY <2>0, <3>1, <3>2, <3>3 DEF Passed, Settled, Numbers
    <3>5. Quiet
      BY <2>0, <3>1, <3>2, <3>4 DEF Passed
    <3>6. QED
      BY <1>0, <3>5, OneProcessSteps DEF HolesInv
  <2>7. CASE FetchMissing(i)
    <3>1. Quiet
      BY <2>7, FetchErrorPasses DEF FetchMissing
    <3>2. QED
      BY <1>0, <3>1, OneProcessSteps DEF HolesInv
  <2>8. CASE NothingFetched(i)
    <3>1. Return(i) /\ Fetched(i) /\ UNCHANGED <<blocks, lost>>
      BY <2>8 DEF NothingFetched
    <3>2. \A n \in Heights : n < proc[i].next => n \in Settled'
      BY <2>0, <2>8, <3>1 DEF NothingFetched, Fetched, Passed, Settled, Numbers
    <3>3. Quiet
      BY <1>0, <3>1, <3>2, ReturnPasses
    <3>4. QED
      BY <1>0, <3>3, OneProcessSteps DEF HolesInv
  <2>9. CASE SaveBatch(i)
    BY <1>0, <2>9, CommitFillsTheBatch DEF HolesInv
  <2>10. CASE SaveConflicts(i)
    <3>1. Quiet
      BY <2>10, SaveErrorPasses DEF SaveConflicts
    <3>2. QED
      BY <1>0, <3>1, OneProcessSteps DEF HolesInv
  <2>11. CASE PollHead(i)
    <3>1. Quiet
      BY <1>0, <2>0, <2>11 DEF PollHead, TypeOK, Process, Passed, Settled
    <3>2. QED
      BY <1>0, <3>1, OneProcessSteps DEF HolesInv
  <2>12. CASE PollMax(i)
    <3>0. UNCHANGED <<blocks, lost>>
      BY <2>12 DEF PollMax
    <3>1. CASE Behind(proc[i].latest, MaxNumber(blocks))
      <4>1. proc' = [proc EXCEPT ![i].pc = "fetch", ![i].latest = 0,
                                 ![i].next = MaxNumber(blocks) + 1,
                                 ![i].last = proc[i].latest]
        BY <2>12, <3>1 DEF PollMax
      <4>2. /\ proc[i].pc' = "fetch" /\ proc[i].raw' = proc[i].raw
            /\ proc[i].next' = MaxNumber(blocks) + 1
            /\ proc' = [proc EXCEPT ![i] = proc'[i]]
        BY <1>0, <2>0, <4>1 DEF TypeOK, Process
      <4>3. proc[i].raw = {}
        BY <2>0, <2>12 DEF PollMax, Passed
      <4>4. \A n \in Heights : n < MaxNumber(blocks) + 1 => n <= MaxNumber(blocks)
        BY <1>0, MaxNumberProperty DEF TypeOK, Heights, NoBlock
      <4>5. \A n \in Heights : n < MaxNumber(blocks) + 1 => n \in Settled'
        BY <3>0, <4>4 DEF HolesInv, HolesWereGivenUp, Settled
      <4>6. Quiet
        BY <3>0, <4>2, <4>3, <4>5 DEF Passed
      <4>7. QED
        BY <1>0, <4>6, OneProcessSteps DEF HolesInv
    <3>2. CASE ~ Behind(proc[i].latest, MaxNumber(blocks))
      <4>1. Quiet
        BY <1>0, <2>12, <3>0, <3>2 DEF PollMax, Poll, At, TypeOK, Passed
      <4>2. QED
        BY <1>0, <4>1, OneProcessSteps DEF HolesInv
    <3>3. QED
      BY <3>1, <3>2
  <2>13. CASE Terminate(i)
    <3>1. Quiet
      BY <1>0, <2>13 DEF Terminate, Exit, Down, At, TypeOK, Passed
    <3>2. QED
      BY <1>0, <3>1, OneProcessSteps DEF HolesInv
  <2>14. CASE ValidationFails(i)
    <3>1. Quiet
      BY <2>14, SaveErrorPasses DEF ValidationFails
    <3>2. QED
      BY <1>0, <3>1, OneProcessSteps DEF HolesInv
  <2>15. QED
    BY <1>2, <2>1, <2>2, <2>3, <2>4, <2>5, <2>6, <2>7, <2>8, <2>9, <2>10,
       <2>11, <2>12, <2>13, <2>14 DEF Progress
<1>3. ASSUME NEW i \in Indexers, Disturbance(i)
      PROVE  HolesInv'
  <2>0. proc[i] \in Process /\ Passed(proc[i], Settled)
    BY DEF HolesInv, TypeOK
  <2> DEFINE Quiet == /\ UNCHANGED blocks /\ lost \subseteq lost'
                      /\ proc' = [proc EXCEPT ![i] = proc'[i]]
                      /\ Passed(proc[i]', Settled')
  <2>1. ASSUME FetchFails(i) PROVE Quiet
    BY <2>1, FetchErrorPasses DEF FetchFails
  <2>2. ASSUME SaveFails(i) PROVE Quiet
    BY <2>2, SaveErrorPasses DEF SaveFails
  <2>3. ASSUME PollFails(i) PROVE Quiet
    BY <1>0, <2>3, ThrowPasses DEF PollFails
  <2>4. ASSUME StopSignal(i) PROVE Quiet
    BY <1>0, <2>0, <2>4 DEF StopSignal, TypeOK, Process, Passed, Settled
  <2>5. ASSUME Crash(i) PROVE Quiet
    BY <1>0, <2>5 DEF Crash, Exit, Down, At, TypeOK, Passed
  <2>6. ASSUME DayPasses(i) PROVE Quiet
    <3> HIDE DEF Quiet
    <3>1. proc' = [proc EXCEPT ![i] = [proc[i] EXCEPT !.bound = BoundNow]]
      BY <2>6 DEF DayPasses
    <3>2. /\ proc[i].pc' = proc[i].pc /\ proc[i].next' = proc[i].next
          /\ proc[i].last' = proc[i].last /\ proc[i].raw' = proc[i].raw
          /\ proc' = [proc EXCEPT ![i] = proc'[i]]
      BY <1>0, <2>0, <3>1 DEF TypeOK, Process
    <3>3. UNCHANGED <<blocks, lost>>
      BY <2>6 DEF DayPasses
    <3>4. QED
      BY <2>0, <3>2, <3>3 DEF Quiet, Passed, Settled
  <2>7. Quiet
    BY <1>3, <2>1, <2>2, <2>3, <2>4, <2>5, <2>6 DEF Disturbance
  <2>8. QED
    BY <1>0, <2>7, OneProcessSteps DEF HolesInv
<1>4. QED
  BY <1>1, <1>2, <1>3 DEF Next

LEMMA HolesInit == Init => HolesInv
<1> SUFFICES ASSUME Init PROVE HolesInv
  OBVIOUS
<1>1. MaxNumber(blocks) = NoBlock
  BY DEF Init, MaxNumber
<1>2. HolesWereGivenUp
  BY <1>1 DEF HolesWereGivenUp, NoBlock, Heights
<1>3. \A i \in Indexers : Passed(proc[i], Settled)
  BY DEF Init, Down, At, Passed
<1>4. QED
  BY <1>2, <1>3, TypeInit DEF HolesInv

(* A number is missing below the stored maximum only if some process gave  *)
(* it up, for any number of processes of the two programs on one table.    *)
THEOREM OnlyLossesLeaveHoles == Spec => []HolesWereGivenUp
<1>1. HolesInv => HolesWereGivenUp
  BY DEF HolesInv
<1>2. QED
  BY <1>1, HolesInit, HolesStep, PTL DEF Spec

-----------------------------------------------------------------------------
(* Rows.  No two rows, and no two blocks of a batch, have one number; and  *)
(* until the chain is reorganised all of them are at or below its head.    *)
OneEach(rows) == \A b, c \in rows : b.number = c.number => b = c

RawOK(p) ==
  /\ p.pc # "fetch" => p.raw = {}
  /\ \A b \in p.raw : b.number < p.next /\ (fork = 1 => b.number <= head)
  /\ OneEach(p.raw)

StoredOK ==
  /\ OneEach(blocks)
  /\ \A b \in blocks : fork = 1 => b.number <= head

RowsOK == StoredOK /\ \A i \in Indexers : RawOK(proc[i])

(* A step of one process that stores nothing.                              *)
LEMMA OneProcessFetches ==
  ASSUME TypeOK, RowsOK, NEW i \in Indexers, UNCHANGED <<chainVars, blocks>>,
         proc' = [proc EXCEPT ![i] = proc'[i]], RawOK(proc[i])'
  PROVE  RowsOK'
<1>1. StoredOK'
  BY DEF RowsOK, StoredOK, OneEach, chainVars
<1>2. ASSUME NEW j \in Indexers
      PROVE  RawOK(proc[j])'
  <2>1. CASE j = i
    BY <2>1
  <2>2. CASE j # i
    <3>1. proc[j]' = proc[j]
      BY <2>2 DEF TypeOK
    <3>2. QED
      BY <3>1 DEF RowsOK, RawOK, OneEach, chainVars
  <2>3. QED
    BY <2>1, <2>2
<1>3. QED
  BY <1>1, <1>2 DEF RowsOK

LEMMA ThrowDropsRaw ==
  ASSUME TypeOK, NEW i \in Indexers, Throw(i)
  PROVE  RawOK(proc[i])' /\ proc' = [proc EXCEPT ![i] = proc'[i]]
BY DEF Throw, Exit, Poll, Down, At, RawOK, OneEach, TypeOK

LEMMA ReturnDropsRaw ==
  ASSUME TypeOK, NEW i \in Indexers, Return(i)
  PROVE  RawOK(proc[i])' /\ proc' = [proc EXCEPT ![i] = proc'[i]]
<1>0. proc[i] \in Process
  BY DEF TypeOK
<1>1. CASE proc[i].startup
  BY <1>0, <1>1 DEF Return, RawOK, OneEach, TypeOK, Process
<1>2. CASE ~ proc[i].startup
  BY <1>2 DEF Return, Poll, At, RawOK, OneEach, TypeOK
<1>3. QED
  BY <1>1, <1>2

LEMMA FetchErrorKeepsRaw ==
  ASSUME TypeOK, RowsOK, UNCHANGED chainVars,
         NEW i \in Indexers, NEW error, Fetching(i), FetchError(i, error)
  PROVE  RawOK(proc[i])' /\ proc' = [proc EXCEPT ![i] = proc'[i]]
<1>0. proc[i] \in Process /\ RawOK(proc[i])
  BY DEF TypeOK, RowsOK
<1>1. CASE Throw(i) /\ UNCHANGED lost
  BY <1>1, ThrowDropsRaw
<1>2. CASE /\ proc' = [proc EXCEPT ![i].next = @ + 1]
           /\ lost' = lost \cup {proc[i].next}
  <2>1. /\ proc[i].pc' = proc[i].pc /\ proc[i].raw' = proc[i].raw
        /\ proc[i].next' = proc[i].next + 1
        /\ proc' = [proc EXCEPT ![i] = proc'[i]]
    BY <1>0, <1>2 DEF TypeOK, Process
  <2>2. \A b \in proc[i].raw : b.number < proc[i].next => b.number < proc[i].next + 1
    BY <1>0 DEF Process, Block, Heights
  <2>3. QED
    BY <1>0, <2>1, <2>2 DEF RawOK, OneEach, chainVars
<1>3. QED
  BY <1>1, <1>2 DEF FetchError

LEMMA SaveErrorDropsRaw ==
  ASSUME TypeOK, NEW i \in Indexers, NEW error, SaveError(i, error)
  PROVE  RawOK(proc[i])' /\ proc' = [proc EXCEPT ![i] = proc'[i]]
BY ThrowDropsRaw, ReturnDropsRaw DEF SaveError

(* What a process fetches is at or below the head, and above what it has   *)
(* fetched before.                                                         *)
LEMMA FetchBlockKeepsRaw ==
  ASSUME TypeOK, RowsOK, NEW i \in Indexers, FetchBlock(i)
  PROVE  RawOK(proc[i])' /\ proc' = [proc EXCEPT ![i] = proc'[i]]
<1> DEFINE n == proc[i].next
           b0 == BlockAt(n)
<1>0. proc[i] \in Process /\ RawOK(proc[i])
  BY DEF TypeOK, RowsOK
<1>1. n \in Heights /\ n <= head /\ b0 \in Block /\ b0.number = n
  BY FetchingType, BlockAtProperty DEF FetchBlock, TypeOK
<1>2. /\ proc[i].pc' = "fetch" /\ proc[i].next' = n + 1
      /\ proc[i].raw' = proc[i].raw \cup {b0}
      /\ proc' = [proc EXCEPT ![i] = proc'[i]]
      /\ UNCHANGED <<head, fork>>
  <2> HIDE DEF b0
  <2>1. proc' = [proc EXCEPT ![i].next = @ + 1, ![i].raw = @ \cup {b0}]
    BY DEF FetchBlock, b0
  <2>2. QED
    BY <1>0, <2>1 DEF FetchBlock, Fetching, TypeOK, Process, chainVars
<1> HIDE DEF b0
<1>3. ASSUME NEW b \in proc[i].raw'
      PROVE  b.number < n + 1 /\ (fork = 1 => b.number <= head)
  BY <1>0, <1>1, <1>2, <1>3 DEF RawOK, OneEach, Process, Block, Heights
<1>4. ASSUME NEW b \in proc[i].raw', NEW c \in proc[i].raw', b.number = c.number
      PROVE  b = c
  <2>1. \A d \in proc[i].raw : d.number # n
    BY <1>0, <1>1 DEF RawOK, OneEach, Process, Block, Heights
  <2>2. QED
    BY <1>0, <1>1, <1>2, <1>4, <2>1 DEF RawOK, OneEach
<1>5. QED
  BY <1>2, <1>3, <1>4 DEF RawOK, OneEach

(* The commit of a batch whose numbers no row has.                         *)
LEMMA CommitKeepsRows ==
  ASSUME TypeOK, RowsOK, NEW i \in Indexers, SaveBatch(i)
  PROVE  RowsOK'
<1>0. /\ StoredOK /\ RawOK(proc[i]) /\ NoConflict(blocks, proc[i].raw)
      /\ blocks' = blocks \cup proc[i].raw /\ Return(i) /\ UNCHANGED <<head, fork>>
  BY DEF RowsOK, SaveBatch, Accepted, InsertRows, chainVars
<1>1. StoredOK'
  BY <1>0 DEF StoredOK, RawOK, OneEach, NoConflict
<1>2. ASSUME NEW j \in Indexers
      PROVE  RawOK(proc[j])'
  <2>1. CASE j = i
    BY <1>0, <2>1, ReturnDropsRaw
  <2>2. CASE j # i
    <3>1. proc[j]' = proc[j]
      BY <1>0, <2>2, ReturnDropsRaw DEF TypeOK
    <3>2. QED
      BY <1>0, <3>1 DEF RowsOK, RawOK, OneEach
  <2>3. QED
    BY <2>1, <2>2
<1>3. QED
  BY <1>1, <1>2 DEF RowsOK

LEMMA NodeKeepsRows ==
  ASSUME TypeOK, RowsOK, NodeStep
  PROVE  RowsOK'
<1>1. fork' = 1 => fork = 1 /\ head <= head'
  <2>1. CASE Mine
    BY <2>1 DEF Mine, TypeOK, ChainTypeOK, Heights
  <2>2. ASSUME NEW k \in Heights, Reorg(k)
        PROVE  fork' # 1
    BY <2>2 DEF Reorg, TypeOK, ChainTypeOK
  <2>3. QED
    BY <2>1, <2>2 DEF NodeStep, ChainNext
<1>2. UNCHANGED <<blocks, proc>> /\ head \in Int /\ head' \in Int
  BY ChainStepType DEF NodeStep, tableVars, TypeOK, ChainTypeOK, Heights
<1>3. \A b \in Block : b.number \in Int
  BY DEF Block, Heights
<1>4. StoredOK'
  BY <1>1, <1>2, <1>3 DEF RowsOK, StoredOK, OneEach, TypeOK
<1>5. ASSUME NEW i \in Indexers
      PROVE  RawOK(proc[i])'
  <2>1. RawOK(proc[i]) /\ proc[i] \in Process
    BY DEF RowsOK, TypeOK
  <2>2. QED
    BY <1>1, <1>2, <1>3, <2>1 DEF RawOK, OneEach, Process
<1>6. QED
  BY <1>4, <1>5 DEF RowsOK

LEMMA RowsStep == TypeOK /\ RowsOK /\ [Next]_vars => RowsOK'
<1> SUFFICES ASSUME TypeOK, RowsOK, [Next]_vars
             PROVE  RowsOK'
  OBVIOUS
<1> USE DEF tableVars
<1> DEFINE Quiet(i) == /\ RawOK(proc[i])' /\ proc' = [proc EXCEPT ![i] = proc'[i]]
                       /\ UNCHANGED <<chainVars, blocks>>
<1>1. CASE NodeStep
  BY <1>1, NodeKeepsRows
<1>2. CASE UNCHANGED vars
  BY <1>2 DEF vars, chainVars, RowsOK, StoredOK, RawOK, OneEach
<1>3. ASSUME NEW i \in Indexers, Progress(i)
      PROVE  Quiet(i) \/ SaveBatch(i)
  <2>0. proc[i] \in Process /\ RawOK(proc[i])
    BY DEF TypeOK, RowsOK
  <2>1. CASE Start(i)
    BY <2>0, <2>1 DEF Start, TypeOK, Process, RawOK, OneEach
  <2>2. CASE ReadMax(i)
    BY <2>0, <2>2 DEF ReadMax, TypeOK, Process, RawOK, OneEach
  <2>3. CASE ReadHead(i)
    BY <2>0, <2>3 DEF ReadHead, TypeOK, Process, RawOK, OneEach
  <2>4. CASE NextStartupBatch(i)
    BY <2>0, <2>4 DEF NextStartupBatch, TypeOK, Process, RawOK, OneEach
  <2>5. CASE StartupDone(i)
    BY <2>0, <2>5 DEF StartupDone, Poll, At, TypeOK, RawOK, OneEach
  <2>6. CASE FetchBlock(i)
    BY <2>6, FetchBlockKeepsRaw DEF FetchBlock
  <2>7. CASE FetchMissing(i)
    BY <2>7, FetchErrorKeepsRaw DEF FetchMissing
  <2>8. CASE NothingFetched(i)
    BY <2>8, ReturnDropsRaw DEF NothingFetched
  <2>9. CASE SaveConflicts(i)
    BY <2>9, SaveErrorDropsRaw DEF SaveConflicts
  <2>10. CASE PollHead(i)
    BY <2>0, <2>10 DEF PollHead, TypeOK, Process, RawOK, OneEach
  <2>11. CASE PollMax(i)
    <3>1. proc[i].raw = {}
      BY <2>0, <2>11 DEF PollMax, RawOK, OneEach
    <3>2. QED
      BY <2>0, <2>11, <3>1 DEF PollMax, Poll, At, TypeOK, Process, RawOK, OneEach
  <2>12. CASE Terminate(i)
    BY <2>12 DEF Terminate, Exit, Down, At, TypeOK, RawOK, OneEach
  <2>13. CASE ValidationFails(i)
    BY <2>13, SaveErrorDropsRaw DEF ValidationFails
  <2>14. QED
    BY <1>3, <2>1, <2>2, <2>3, <2>4, <2>5, <2>6, <2>7, <2>8, <2>9, <2>10,
       <2>11, <2>12, <2>13 DEF Progress
<1>4. ASSUME NEW i \in Indexers, Disturbance(i)
      PROVE  Quiet(i)
  <2>0. proc[i] \in Process /\ RawOK(proc[i])
    BY DEF TypeOK, RowsOK
  <2>1. CASE FetchFails(i)
    BY <2>1, FetchErrorKeepsRaw DEF FetchFails
  <2>2. CASE SaveFails(i)
    BY <2>2, SaveErrorDropsRaw DEF SaveFails
  <2>3. CASE PollFails(i)
    BY <2>3, ThrowDropsRaw DEF PollFails
  <2>4. CASE StopSignal(i)
    BY <2>0, <2>4 DEF StopSignal, TypeOK, Process, RawOK, OneEach, chainVars
  <2>5. CASE Crash(i)
    BY <2>5 DEF Crash, Exit, Down, At, TypeOK, RawOK, OneEach
  <2>6. CASE DayPasses(i)
    <3>1. proc' = [proc EXCEPT ![i] = [proc[i] EXCEPT !.bound = BoundNow]]
      BY <2>6 DEF DayPasses
    <3>2. /\ proc[i].pc' = proc[i].pc /\ proc[i].next' = proc[i].next
          /\ proc[i].raw' = proc[i].raw /\ proc' = [proc EXCEPT ![i] = proc'[i]]
      BY <2>0, <3>1 DEF TypeOK, Process
    <3>3. UNCHANGED <<chainVars, blocks>>
      BY <2>6 DEF DayPasses
    <3>4. QED
      BY <2>0, <3>2, <3>3 DEF RawOK, OneEach, chainVars
  <2>7. QED
    BY <1>4, <2>1, <2>2, <2>3, <2>4, <2>5, <2>6 DEF Disturbance
<1>5. ASSUME NEW i \in Indexers, Quiet(i)
      PROVE  RowsOK'
  BY <1>5, OneProcessFetches
<1>6. QED
  BY <1>1, <1>2, <1>3, <1>4, <1>5, CommitKeepsRows DEF Next

-----------------------------------------------------------------------------
(* The REST API.  Its steps leave everything alone that the indexers have, *)
(* but the count of the faults.                                            *)
Above(rows, n) == {s \in rows : s.number > n}
Rank(r) == Cardinality(Above(blocks, r.number))

(* What the node has answered is not above the chain, unless the chain was *)
(* reorganised since.                                                      *)
AnswerOK(a) ==
  /\ a.fork <= fork
  /\ a.fork = fork => a.head <= head
  /\ fork = 1 => a.head <= head

(* A status report: it has read the answer it knew of, or a later one.     *)
StatusOK(r) ==
  /\ AnswerOK(r.known)
  /\ r.known.fork = fork /\ r.head # NoBlock => r.known.head <= r.head
  /\ r.max <= MaxNumber(blocks)
  /\ fork = 1 => r.head <= head

(* An answer that is kept while a report has not read the head was kept    *)
(* when it began.                                                          *)
KeptOK ==
  /\ Kept => AnswerOK(chainHead)
  /\ Kept /\ Awaits("head") => request.known = chainHead

(* A listing: the row has been shown, or is still below the pages shown.   *)
ListingOK(r) ==
  /\ r.row \in blocks
  /\ r.state \in {"count", "select"} => r.shown \/ (r.page - 1) * PageSize <= Rank(r.row)
  /\ r.state = "select" => r.count <= Cardinality(blocks)
  /\ r.state = "done" => r.shown \/ r.late > 0

ApiInv ==
  /\ ApiTypeOK
  /\ RowsOK
  /\ KeptOK
  /\ request.kind = "status" => StatusOK(request)
  /\ request.kind = "listing" => ListingOK(request)

(* A table whose rows have different numbers is finite and bounded.        *)
LEMMA RowsAreFew ==
  ASSUME NEW rows \in SUBSET Block, OneEach(rows)
  PROVE  IsFiniteSet(rows) /\ Cardinality(rows) \in Rows
<1> DEFINE f == [b \in rows |-> b.number]
<1>1. f \in Injection(rows, Heights)
  <2>1. f \in [rows -> Heights]
    BY DEF Block
  <2>2. IsInjective(f)
    BY DEF IsInjective, OneEach
  <2>3. QED
    BY <2>1, <2>2 DEF Injection
<1>2. IsFiniteSet(Heights) /\ Cardinality(Heights) = MaxHeight + 1
  BY FS_Interval DEF Heights
<1>3. IsFiniteSet(rows) /\ Cardinality(rows) <= MaxHeight + 1
  <2> HIDE DEF f
  <2>1. QED
    BY <1>1, <1>2, FS_Injection
<1>4. QED
  BY <1>3, FS_CardinalityType DEF Rows

(* Rows are never deleted, and the head falls only with the fork.          *)
LEMMA TableGrows ==
  ASSUME TypeOK, [Next]_vars
  PROVE  /\ blocks \subseteq blocks'
         /\ fork <= fork'
         /\ fork' = fork => head <= head'
<1>0. head \in Int /\ fork \in Int
  BY DEF TypeOK, ChainTypeOK, Heights
<1>1. CASE NodeStep
  <2>1. CASE Mine
    BY <1>0, <1>1, <2>1 DEF NodeStep, Mine, tableVars
  <2>2. ASSUME NEW k \in Heights, Reorg(k)
        PROVE  UNCHANGED blocks /\ fork' = fork + 1
    BY <1>1, <2>2 DEF NodeStep, Reorg, tableVars
  <2>3. QED
    BY <1>0, <1>1, <2>1, <2>2 DEF NodeStep, ChainNext
<1>2. CASE UNCHANGED vars
  BY <1>0, <1>2 DEF vars, chainVars, tableVars
<1>3. ASSUME NEW i \in Indexers, Progress(i) \/ Disturbance(i)
      PROVE  blocks \subseteq blocks' /\ UNCHANGED <<head, fork>>
  BY <1>3 DEF Progress, Disturbance, chainVars, tableVars, Start, ReadMax,
     ReadHead, NextStartupBatch, StartupDone, FetchBlock, FetchMissing,
     NothingFetched, SaveBatch, InsertRows, SaveConflicts, PollHead, PollMax,
     Terminate, FetchFails, SaveFails, PollFails, StopSignal, Crash,
     ValidationFails, DayPasses
<1>4. QED
  BY <1>0, <1>1, <1>2, <1>3 DEF Next

(* The maximum and the ranks of the rows only grow with the table.         *)
LEMMA MaximumGrows ==
  ASSUME NEW S \in SUBSET Block, NEW T \in SUBSET Block, S \subseteq T
  PROVE  MaxNumber(S) <= MaxNumber(T)
<1>1. /\ MaxNumber(S) \in Heights \cup {NoBlock} /\ MaxNumber(T) \in Heights \cup {NoBlock}
      /\ \A r \in T : r.number <= MaxNumber(T)
  BY MaxNumberProperty
<1>2. CASE S = {}
  BY <1>1, <1>2 DEF MaxNumber, NoBlock, Heights
<1>3. CASE S # {}
  BY <1>1, <1>3, MaxNumberOfNonEmpty DEF Numbers
<1>4. QED
  BY <1>2, <1>3

LEMMA RanksGrow ==
  ASSUME NEW S \in SUBSET Block, NEW T \in SUBSET Block, OneEach(T), S \subseteq T,
         NEW n \in Int
  PROVE  /\ Cardinality(S) <= Cardinality(T)
         /\ Cardinality(Above(S, n)) <= Cardinality(Above(T, n))
         /\ Cardinality(Above(S, n)) \in Nat /\ Cardinality(Above(T, n)) \in Nat
<1>1. IsFiniteSet(S) /\ IsFiniteSet(T)
  BY RowsAreFew, FS_Subset
<1>2. /\ Above(S, n) \in SUBSET Above(T, n)
      /\ Above(T, n) \in SUBSET T
      /\ Above(S, n) \in SUBSET S
  BY DEF Above
<1>3. IsFiniteSet(Above(T, n)) /\ IsFiniteSet(Above(S, n))
  BY <1>1, <1>2, FS_Subset
<1>4. QED
  BY <1>1, <1>2, <1>3, FS_Subset, FS_CardinalityType

(* There are fewer rows above a row than rows.                             *)
LEMMA RankBelowCount ==
  ASSUME TypeOK, StoredOK, NEW r \in blocks
  PROVE  Rank(r) \in Nat /\ Rank(r) <= Cardinality(blocks) - 1
<1>1. IsFiniteSet(blocks) /\ Cardinality(blocks) \in Nat
  BY RowsAreFew DEF Rows, TypeOK, StoredOK
<1>2. IsFiniteSet(blocks \ {r}) /\ Cardinality(blocks \ {r}) = Cardinality(blocks) - 1
  BY <1>1, FS_RemoveElement
<1>3. Above(blocks, r.number) \in SUBSET (blocks \ {r})
  BY DEF Above, TypeOK, Block, Heights
<1>4. IsFiniteSet(Above(blocks, r.number))
      /\ Cardinality(Above(blocks, r.number)) <= Cardinality(blocks) - 1
  BY <1>2, <1>3, FS_Subset
<1>5. QED
  BY <1>4, FS_CardinalityType DEF Rank

(* The pages up to the last one cover the rows, and there are no more      *)
(* pages than rows.                                                        *)
LEMMA PagesCover ==
  ASSUME NEW count \in Nat
  PROVE  /\ TotalPages(count) \in Nat
         /\ TotalPages(count) <= count
         /\ count <= TotalPages(count) * PageSize
<1> DEFINE q == (count + PageSize - 1) \div PageSize
<1>1. PageSize \in Nat /\ PageSize > 0
  BY ApiAssumption
<1>2. /\ q \in Int
      /\ PageSize * q <= count + PageSize - 1
      /\ count + PageSize - 1 < PageSize * q + PageSize
  BY <1>1
<1>3. q >= 0 /\ count <= q * PageSize
  BY <1>1, <1>2
<1>4. q <= count
  BY <1>1, <1>2
<1>5. QED
  BY <1>2, <1>3, <1>4 DEF TotalPages


(* What is under way is known by its kind.                                 *)
LEMMA RequestKinds ==
  ASSUME request \in {Idle} \cup Status \cup Lookup \cup Listing
  PROVE  /\ request.kind = "status" => request \in Status
         /\ request.kind = "lookup" => request \in Lookup
         /\ request.kind = "listing" => request \in Listing
BY DEF Idle, Status, Lookup, Listing

(* While the indexers and the node step, what a request has seen of the    *)
(* table and the chain stays true enough.                                  *)
LEMMA IndexersKeepRequest ==
  ASSUME ApiInv, RowsOK', TypeOK', [Next]_vars, UNCHANGED apiVars
  PROVE  ApiInv'
<1>0. /\ TypeOK /\ RowsOK /\ UNCHANGED <<api, request, chainHead>>
      /\ request \in {Idle} \cup Status \cup Lookup \cup Listing
      /\ blocks \in SUBSET Block /\ blocks' \in SUBSET Block
  BY DEF ApiInv, ApiTypeOK, TypeOK, apiVars
<1>1. ApiTypeOK'
  BY <1>0 DEF ApiInv, ApiTypeOK
<1>2. /\ blocks \subseteq blocks' /\ fork <= fork'
      /\ fork' = fork => head <= head'
      /\ head \in Heights /\ head' \in Heights
      /\ fork \in 1..MaxFork /\ fork' \in 1..MaxFork
  BY <1>0, TableGrows DEF TypeOK, ChainTypeOK
<1>3. ASSUME NEW a \in Answer, AnswerOK(a)
      PROVE  AnswerOK(a)' /\ (a.fork = fork' => fork' = fork)
  <2>1. a.fork \in Int /\ a.head \in Int
    BY DEF Answer, Heights
  <2>2. QED
    BY <1>2, <1>3, <2>1 DEF AnswerOK, Heights
<1>4. KeptOK'
  <2>1. Kept => chainHead \in Answer
    BY DEF ApiInv, ApiTypeOK, Kept
  <2>2. UNCHANGED <<chainHead, request>>
    BY DEF apiVars
  <2>3. QED
    BY <1>3, <2>1, <2>2 DEF ApiInv, KeptOK, Kept, Awaits, AnswerOK
<1>5. ASSUME request.kind = "status"
      PROVE  StatusOK(request)'
  <2>1. request \in Status /\ StatusOK(request) /\ request.known \in Answer
    BY <1>0, <1>5, RequestKinds DEF ApiInv, Status
  <2>2. /\ MaxNumber(blocks) <= MaxNumber(blocks')
        /\ MaxNumber(blocks) \in Int /\ MaxNumber(blocks') \in Int
    BY <1>0, <1>2, MaximumGrows, MaxNumberProperty DEF Heights, NoBlock
  <2>3. request.max \in Int /\ request.head \in Int
    BY <2>1 DEF Status, Heights, NoBlock
  <2>4. AnswerOK(request.known)' /\ (request.known.fork = fork' => fork' = fork)
    BY <1>0, <1>3, <2>1 DEF StatusOK, AnswerOK
  <2>5. request.max <= MaxNumber(blocks')
    BY <2>1, <2>2, <2>3 DEF StatusOK
  <2>6. fork' = 1 => request.head <= head'
    BY <1>2, <2>1, <2>3 DEF StatusOK, Heights
  <2>7. QED
    BY <1>0, <2>1, <2>4, <2>5, <2>6 DEF StatusOK
<1>6. ASSUME request.kind = "listing"
      PROVE  ListingOK(request)'
  <2>1. request \in Listing /\ ListingOK(request)
    BY <1>0, <1>6, RequestKinds DEF ApiInv
  <2> DEFINE n == request.row.number
             offset == (request.page - 1) * PageSize
  <2>2. n \in Int /\ offset \in Int /\ request.count \in Int
    BY <2>1, ApiAssumption DEF Listing, Block, Heights, Rows
  <2>3. /\ Cardinality(blocks) <= Cardinality(blocks')
        /\ Cardinality(Above(blocks, n)) <= Cardinality(Above(blocks', n))
        /\ Cardinality(Above(blocks, n)) \in Nat /\ Cardinality(Above(blocks', n)) \in Nat
    BY <1>0, <1>2, <2>2, RanksGrow DEF RowsOK, StoredOK
  <2>4. Cardinality(blocks) \in Nat /\ Cardinality(blocks') \in Nat
    BY <1>0, RowsAreFew DEF Rows, RowsOK, StoredOK
  <2>5. request.row \in blocks'
    BY <1>2, <2>1 DEF ListingOK
  <2>6. offset <= Rank(request.row) => offset <= Cardinality(Above(blocks', n))
    <3> HIDE DEF offset
    <3> QED BY <2>2, <2>3 DEF Rank
  <2>7. request.count <= Cardinality(blocks) => request.count <= Cardinality(blocks')
    BY <2>2, <2>3, <2>4
  <2>8. QED
    BY <1>0, <2>1, <2>5, <2>6, <2>7 DEF ListingOK, Rank
<1>7. QED
  BY <1>0, <1>1, <1>4, <1>5, <1>6 DEF ApiInv

(* The steps of the API change nothing the indexers have.                  *)
LEMMA ApiLeavesTheTable ==
  ASSUME TypeOK, ApiStep
  PROVE  UNCHANGED <<chainVars, tableVars, proc>> /\ TypeOK'
<1>1. UNCHANGED <<chainVars, tableVars, proc>> /\ (UNCHANGED faults \/ Fault)
  BY DEF ApiStep, ApiStart, ApiExit, RequestFails, RequestEnds, StatusBegins,
     StatusReadsMax, StatusReadsHead, StatusMissesHead, LookupBegins,
     LookupFindsNumber, LookupEnds, ListingBegins, ListingCounts,
     ListingSelects, OthersReadHead, AnswerExpires, Step, vars
<1>2. QED
  BY <1>1, FaultType DEF TypeOK, ChainTypeOK, chainVars, tableVars

RequestOK ==
  /\ request \in {Idle} \cup Status \cup Lookup \cup Listing
  /\ request.kind = "status" => StatusOK(request)
  /\ request.kind = "listing" => ListingOK(request)

LEMMA IdleIsOK ==
  ASSUME request' = Idle
  PROVE  RequestOK'
BY DEF RequestOK, Idle

(* What the node answers now is true of the chain.                         *)
LEMMA LatestIsOK ==
  ASSUME TypeOK
  PROVE  Latest \in Answer /\ AnswerOK(Latest) /\ Latest # NoAnswer /\ Latest.head = head
BY DEF Latest, Answer, AnswerOK, NoAnswer, NoBlock, TypeOK, ChainTypeOK, Heights

(* The answer that is kept.  It comes only before a report that may read   *)
(* it, or with the read itself.                                            *)
LEMMA KeptSteps ==
  ASSUME ApiInv, ApiStep, UNCHANGED <<chainVars, tableVars, proc>>
  PROVE  KeptOK' /\ chainHead' \in {NoAnswer} \cup Answer
<1>0. /\ TypeOK /\ KeptOK /\ chainHead \in {NoAnswer} \cup Answer
      /\ request \in {Idle} \cup Status \cup Lookup \cup Listing
      /\ UNCHANGED <<head, fork>>
      /\ Latest \in Answer /\ AnswerOK(Latest)
  BY LatestIsOK DEF ApiInv, ApiTypeOK, chainVars
<1>1. CASE chainHead' = NoAnswer
  BY <1>1 DEF KeptOK, Kept
<1>2. CASE StatusBegins
  <2>1. /\ request' = [kind |-> "status", pending |-> {"max", "head"}, max |-> NoBlock,
                       head |-> NoBlock, known |-> IF Kept THEN chainHead ELSE Latest]
        /\ chainHead' = chainHead
    BY <1>2 DEF StatusBegins, Step
  <2>2. Kept => request'.known = chainHead
    BY <2>1
  <2>3. QED
    BY <1>0, <2>1, <2>2 DEF KeptOK, Kept, AnswerOK
<1>3. CASE StatusReadsHead
  <2>1. /\ request \in Status /\ request' = [request EXCEPT !.pending = @ \ {"head"},
                                                        !.head = chainHead'.head]
        /\ chainHead' = IF Kept THEN chainHead ELSE Latest
    BY <1>0, <1>3, RequestKinds DEF StatusReadsHead, Awaits
  <2>2. ~ Awaits("head")'
    BY <2>1 DEF Awaits, Status
  <2>3. QED
    BY <1>0, <2>1, <2>2 DEF KeptOK, Kept, AnswerOK
<1>4. CASE OthersReadHead
  <2>1. chainHead' = Latest /\ request' = Idle
    BY <1>4 DEF OthersReadHead, Accepts
  <2>2. QED
    BY <1>0, <2>1 DEF KeptOK, Awaits, AnswerOK, Idle
<1>5. CASE StatusReadsMax \/ StatusMissesHead
  <2>1. /\ request \in Status /\ chainHead' = chainHead
        /\ \/ request' = [request EXCEPT !.pending = @ \ {"max"}, !.max = MaxNumber(blocks)]
           \/ request' = [request EXCEPT !.pending = @ \ {"head"}]
    BY <1>0, <1>5, RequestKinds DEF StatusReadsMax, StatusMissesHead, Awaits, Step
  <2>2. request'.known = request.known /\ request'.kind = request.kind
    BY <2>1 DEF Status
  <2>3. \/ request'.pending = request.pending \ {"max"}
        \/ request'.pending = request.pending \ {"head"}
    BY <2>1 DEF Status
  <2>4. Awaits("head")' => Awaits("head")
    BY <2>2, <2>3, Zenon DEF Awaits
  <2>5. QED
    BY <1>0, <2>1, <2>2, <2>4 DEF KeptOK, Kept, AnswerOK
<1>6. CASE chainHead' = chainHead /\ (request' = request \/ request'.kind # "status")
  BY <1>0, <1>6 DEF KeptOK, Kept, Awaits, AnswerOK
<1>7. CASE ApiStart \/ ApiExit \/ RequestFails \/ RequestEnds \/ AnswerExpires
  BY <1>1, <1>6, <1>7 DEF ApiStart, ApiExit, RequestFails, RequestEnds,
     AnswerExpires, Step, Idle
<1>8. CASE LookupBegins \/ LookupFindsNumber \/ LookupEnds
  <2>1. chainHead' = chainHead /\ request'.kind # "status"
    BY <1>0, <1>8, RequestKinds DEF LookupBegins, LookupFindsNumber, LookupEnds, Step, Idle, Lookup
  <2>2. QED
    BY <1>6, <2>1
<1>9. CASE ListingBegins \/ ListingCounts \/ ListingSelects
  <2>1. chainHead' = chainHead
    BY <1>9 DEF ListingBegins, ListingCounts, ListingSelects, Step
  <2>2. request'.kind # "status"
    <3>1. CASE ListingBegins
      BY <3>1 DEF ListingBegins, Step
    <3>2. CASE ListingCounts
      BY <1>0, <3>2, RequestKinds DEF ListingCounts, Step, Listing
    <3>3. CASE ListingSelects
      <4>1. PICK shown, late, page, state :
              request' = [request EXCEPT !.shown = shown, !.late = late,
                                         !.page = page, !.state = state]
        BY <3>3 DEF ListingSelects, Step
      <4>2. QED
        BY <1>0, <3>3, <4>1, RequestKinds DEF ListingSelects, Listing
    <3>4. QED
      BY <1>9, <3>1, <3>2, <3>3
  <2>3. QED
    BY <1>6, <2>1, <2>2
<1>10. QED
  BY <1>2, <1>3, <1>4, <1>5, <1>7, <1>8, <1>9 DEF ApiStep

(* GET /api/status.                                                        *)
LEMMA StatusSteps ==
  ASSUME ApiInv, UNCHANGED <<chainVars, blocks>>,
         StatusBegins \/ StatusReadsMax \/ StatusReadsHead \/ StatusMissesHead
  PROVE  RequestOK'
<1>0. /\ blocks \in SUBSET Block /\ UNCHANGED <<head, fork, blocks>>
      /\ head \in Heights /\ fork \in 1..MaxFork
      /\ MaxNumber(blocks) \in Heights \cup {NoBlock}
      /\ request.kind = "status" => request \in Status /\ StatusOK(request)
      /\ NoBlock = -1 /\ Heights \subseteq Nat
      /\ KeptOK /\ chainHead \in {NoAnswer} \cup Answer
      /\ Latest \in Answer /\ AnswerOK(Latest) /\ Latest.head = head
  BY MaxNumberProperty, RequestKinds, LatestIsOK
     DEF ApiInv, ApiTypeOK, TypeOK, ChainTypeOK, chainVars, NoBlock, Heights
<1> DEFINE got == IF Kept THEN chainHead ELSE Latest
<1>1. /\ got \in Answer /\ AnswerOK(got) /\ got.head \in Heights
      /\ got.fork = fork => got.head <= head
      /\ fork = 1 => got.head <= head
  <2>1. got \in Answer /\ AnswerOK(got)
    BY <1>0 DEF KeptOK, Kept
  <2>2. QED
    BY <2>1 DEF Answer, AnswerOK
<1> HIDE DEF got
<1>2. CASE StatusBegins
  <2>1. request' = [kind |-> "status", pending |-> {"max", "head"},
                    max |-> NoBlock, head |-> NoBlock, known |-> got]
    BY <1>2 DEF StatusBegins, Step, got
  <2>2. request' \in Status
    BY <1>0, <1>1, <2>1 DEF Status
  <2>3. /\ request'.max = NoBlock /\ request'.head = NoBlock
        /\ request'.known = got /\ request'.kind = "status"
    BY <2>1
  <2>4. NoBlock <= MaxNumber(blocks) /\ NoBlock <= head
    BY <1>0 DEF Heights, NoBlock
  <2>5. StatusOK(request)'
    BY <1>0, <1>1, <2>3, <2>4 DEF StatusOK, AnswerOK
  <2>6. QED
    BY <2>2, <2>3, <2>5 DEF RequestOK
<1>3. CASE StatusReadsMax
  <2>1. /\ request \in Status /\ StatusOK(request) /\ request.kind = "status"
        /\ request' = [request EXCEPT !.pending = @ \ {"max"}, !.max = MaxNumber(blocks)]
    BY <1>0, <1>3 DEF StatusReadsMax, Awaits, Step
  <2>2. request' \in Status
    BY <1>0, <2>1 DEF Status
  <2>3. /\ request'.max = MaxNumber(blocks) /\ request'.head = request.head
        /\ request'.known = request.known /\ request'.kind = "status"
    BY <2>1 DEF Status
  <2>4. StatusOK(request)'
    BY <1>0, <2>1, <2>3 DEF StatusOK, AnswerOK
  <2>5. QED
    BY <2>2, <2>3, <2>4 DEF RequestOK
<1>4. CASE StatusReadsHead
  <2>1. /\ request \in Status /\ StatusOK(request) /\ request.kind = "status"
        /\ request' = [request EXCEPT !.pending = @ \ {"head"}, !.head = got.head]
    BY <1>0, <1>4 DEF StatusReadsHead, Awaits, got
  <2>2. request' \in Status
    BY <1>0, <1>1, <2>1 DEF Status
  <2>3. /\ request'.max = request.max /\ request'.head = got.head
        /\ request'.known = request.known /\ request'.kind = "status"
    BY <2>1 DEF Status
  <2>4. request.known.fork = fork => request.known.head <= got.head
    <3>1. CASE Kept
      <4>1. request.known = chainHead /\ got = chainHead
        BY <1>0, <1>4, <3>1 DEF StatusReadsHead, KeptOK, got
      <4>2. request.known.head = got.head
        BY <4>1, Zenon
      <4>3. got.head \in Nat
        BY <1>0, <1>1, Zenon
      <4>4. QED
        BY <4>2, <4>3
    <3>2. CASE ~ Kept
      BY <1>0, <2>1, <3>2 DEF got, StatusOK, AnswerOK
    <3>3. QED
      BY <3>1, <3>2
  <2>5. StatusOK(request)'
    BY <1>0, <1>1, <2>1, <2>3, <2>4 DEF StatusOK, AnswerOK
  <2>6. QED
    BY <2>2, <2>3, <2>5 DEF RequestOK
<1>5. CASE StatusMissesHead
  <2>1. /\ request \in Status /\ StatusOK(request) /\ request.kind = "status"
        /\ request' = [request EXCEPT !.pending = @ \ {"head"}]
    BY <1>0, <1>5 DEF StatusMissesHead, Awaits, Step
  <2>2. request' \in Status
    BY <1>0, <2>1 DEF Status
  <2>3. /\ request'.max = request.max /\ request'.head = request.head
        /\ request'.known = request.known /\ request'.kind = "status"
    BY <2>1 DEF Status
  <2>4. StatusOK(request)'
    BY <1>0, <2>1, <2>3 DEF StatusOK, AnswerOK
  <2>5. QED
    BY <2>2, <2>3, <2>4 DEF RequestOK
<1>6. QED
  BY <1>2, <1>3, <1>4, <1>5

(* GET /api/blocks/:id.                                                    *)
LEMMA LookupSteps ==
  ASSUME ApiInv, LookupBegins \/ LookupFindsNumber \/ LookupEnds
  PROVE  RequestOK'
<1>0. /\ blocks \in SUBSET Block
      /\ request.kind = "lookup" => request \in Lookup
  BY RequestKinds DEF ApiInv, ApiTypeOK, TypeOK
<1>1. CASE LookupBegins
  <2>1. \E h \in Hash, n \in Heights \cup {NoBlock} :
          request' = [kind |-> "lookup", hash |-> h, number |-> n]
    <3>1. NoHash \in Hash
      BY DEF NoHash, ZeroHash, NotMined, Hash, Heights
    <3>2. QED
      BY <1>0, <1>1, <3>1 DEF LookupBegins, Step, Block
  <2>2. QED
    BY <2>1 DEF RequestOK, Lookup
<1>2. CASE LookupFindsNumber
  <2>1. CASE request' = Idle
    BY <2>1, IdleIsOK
  <2>2. CASE \E r \in blocks : request' = [request EXCEPT !.number = r.number]
    BY <1>0, <1>2, <2>2 DEF LookupFindsNumber, RequestOK, Lookup, Block
  <2>3. QED
    BY <1>2, <2>1, <2>2 DEF LookupFindsNumber, Step
<1>3. CASE LookupEnds
  BY <1>3, IdleIsOK DEF LookupEnds, Step
<1>4. QED
  BY <1>1, <1>2, <1>3


(* GET /api/blocks.  A page that does not show the row lies wholly above   *)
(* it; the last page, by a count that is still exact, shows it.            *)
LEMMA ListingSteps ==
  ASSUME ApiInv, UNCHANGED blocks,
         ListingBegins \/ ListingCounts \/ ListingSelects
  PROVE  RequestOK'
<1>0. /\ TypeOK /\ StoredOK /\ blocks' = blocks /\ blocks \in SUBSET Block
      /\ request.kind = "listing" => request \in Listing /\ ListingOK(request)
      /\ Cardinality(blocks) \in Rows /\ Rows \subseteq Nat
  BY RequestKinds, RowsAreFew
     DEF ApiInv, ApiTypeOK, RowsOK, StoredOK, TypeOK, Rows
<1>1. CASE ListingBegins
  <2>1. PICK r \in blocks :
          request' = [kind |-> "listing", state |-> "count", page |-> 1, count |-> 0,
                      row |-> r, shown |-> FALSE, late |-> 0]
    BY <1>1 DEF ListingBegins, Step
  <2>2. request' \in Listing
    BY <1>0, <2>1 DEF Listing, Rows
  <2>3. /\ request'.row = r /\ request'.state = "count" /\ request'.page = 1
        /\ request'.kind = "listing"
    BY <2>1
  <2>4. (1 - 1) * PageSize = 0 /\ 0 <= Rank(r)
    BY <1>0, RankBelowCount, ApiAssumption
  <2>5. ListingOK(request)'
    BY <1>0, <2>3, <2>4 DEF ListingOK, Rank
  <2>6. QED
    BY <2>2, <2>3, <2>5 DEF RequestOK
<1>2. CASE ListingCounts
  <2>1. /\ request \in Listing /\ ListingOK(request) /\ request.state = "count"
        /\ request' = [request EXCEPT !.state = "select", !.count = Cardinality(blocks)]
    BY <1>0, <1>2 DEF ListingCounts, Step
  <2>2. request' \in Listing
    BY <1>0, <2>1 DEF Listing
  <2>3. /\ request'.row = request.row /\ request'.page = request.page
        /\ request'.shown = request.shown /\ request'.state = "select"
        /\ request'.count = Cardinality(blocks) /\ request'.kind = "listing"
    BY <2>1 DEF Listing
  <2>4. ListingOK(request)'
    BY <1>0, <2>1, <2>3 DEF ListingOK, Rank
  <2>5. QED
    BY <2>2, <2>3, <2>4 DEF RequestOK
<1>3. CASE ListingSelects
  <2> DEFINE hasNext == request.page < TotalPages(request.count)
             rank == Rank(request.row)
             visible == request.row \in Page(blocks, request.page)
             size == Cardinality(blocks)
             first == (request.page - 1) * PageSize
             next == request.page * PageSize
  <2>1. /\ request \in Listing /\ ListingOK(request) /\ request.state = "select"
        /\ request' = [request EXCEPT
                         !.shown = @ \/ visible,
                         !.late = size - request.count,
                         !.page = IF hasNext THEN @ + 1 ELSE @,
                         !.state = IF hasNext THEN "count" ELSE "done"]
    BY <1>0, <1>3 DEF ListingSelects, Step
  <2>2. /\ request.count \in Rows /\ request.page \in 1..(MaxHeight + 1)
        /\ request.row \in blocks /\ request.shown \in BOOLEAN
        /\ request.count <= size
        /\ request.shown \/ first <= rank
    BY <2>1 DEF Listing, ListingOK
  <2>3. /\ request'.row = request.row /\ request'.kind = "listing"
        /\ request'.shown = (request.shown \/ visible)
        /\ request'.late = size - request.count
        /\ request'.page = IF hasNext THEN request.page + 1 ELSE request.page
        /\ request'.state = IF hasNext THEN "count" ELSE "done"
    <3> HIDE DEF hasNext, visible, size
    <3> QED BY <2>1 DEF Listing
  <2>4. /\ TotalPages(request.count) \in Nat
        /\ TotalPages(request.count) <= request.count
        /\ request.count <= TotalPages(request.count) * PageSize
    BY <1>0, <2>2, PagesCover
  <2>5. hasNext => request.page + 1 \in 1..(MaxHeight + 1)
    BY <1>0, <2>2, <2>4 DEF Rows
  <2>6. size - request.count \in Rows
    BY <1>0, <2>2 DEF Rows
  <2>7. request' \in Listing
    <3> HIDE DEF hasNext, visible, size
    <3>1. (request.shown \/ visible) \in BOOLEAN
      OBVIOUS
    <3>2. QED
      BY <2>1, <2>5, <2>6, <3>1 DEF Listing
  <2>8. rank \in Nat /\ rank <= size - 1
    BY <1>0, <2>2, RankBelowCount
  <2>9. visible <=> rank \in first..(next - 1)
    BY <2>2 DEF Page, Rank, Above
  <2>10. /\ first \in Int /\ next \in Int
         /\ (request.page + 1 - 1) * PageSize = next
    BY <2>2, ApiAssumption
  <2>11. CASE hasNext
    <3>1. request'.shown \/ next <= rank
      <4> HIDE DEF rank, visible, hasNext, first, next
      <4>1. first <= rank => visible \/ next <= rank
        BY <2>8, <2>9, <2>10
      <4>2. QED
        BY <2>2, <2>3, <4>1, Zenon
    <3>2. /\ request'.state = "count" /\ request'.page = request.page + 1
      BY <2>3, <2>11
    <3>3. ListingOK(request)'
      BY <1>0, <2>2, <2>3, <2>10, <3>1, <3>2 DEF ListingOK, Rank
    <3>4. QED
      BY <2>3, <2>7, <3>3 DEF RequestOK
  <2>12. CASE ~ hasNext
    <3> DEFINE last == TotalPages(request.count) * PageSize
    <3>1. last \in Int /\ last <= next
      BY <2>2, <2>4, <2>12, ApiAssumption
    <3>2. size \in Nat /\ request.count \in Nat /\ request.count <= last
      BY <1>0, <2>2, <2>4
    <3>3. request'.shown \/ request'.late > 0
      <4> HIDE DEF rank, visible, hasNext, size, first, next, last
      <4>1. first <= rank => visible \/ size - request.count > 0
        BY <2>2, <2>8, <2>9, <2>10, <3>1, <3>2
      <4>2. QED
        BY <2>2, <2>3, <4>1, Zenon
    <3>4. request'.state = "done"
      BY <2>3, <2>12
    <3>5. ListingOK(request)'
      BY <1>0, <2>2, <2>3, <3>3, <3>4 DEF ListingOK
    <3>6. QED
      BY <2>3, <2>7, <3>5 DEF RequestOK
  <2>13. QED
    BY <2>11, <2>12
<1>4. QED
  BY <1>1, <1>2, <1>3

LEMMA ApiInvStep == ApiInv /\ [ApiNext]_<<vars, apiVars>> => ApiInv'
<1> SUFFICES ASSUME ApiInv, [ApiNext]_<<vars, apiVars>>
             PROVE  ApiInv'
  OBVIOUS
<1>0. TypeOK /\ RowsOK
  BY DEF ApiInv, ApiTypeOK
<1>1. CASE IndexerStep \/ UNCHANGED <<vars, apiVars>>
  <2>1. [Next]_vars /\ UNCHANGED apiVars
    BY <1>1 DEF IndexerStep
  <2>2. QED
    BY <1>0, <2>1, TypeStep, RowsStep, IndexersKeepRequest
<1>2. CASE ApiStep
  <2>1. UNCHANGED <<chainVars, tableVars, proc>> /\ TypeOK'
    BY <1>0, <1>2, ApiLeavesTheTable
  <2>2. UNCHANGED <<head, fork, blocks>>
    BY <2>1 DEF chainVars, tableVars
  <2>3. RowsOK'
    BY <1>0, <2>1, <2>2 DEF RowsOK, StoredOK, RawOK, OneEach
  <2>4. api' \in {"down", "up"}
    BY <1>2 DEF ApiInv, ApiTypeOK, ApiStep, ApiStart, ApiExit, RequestFails,
       RequestEnds, StatusBegins, StatusReadsMax, StatusReadsHead,
       StatusMissesHead, LookupBegins, LookupFindsNumber, LookupEnds,
       ListingBegins, ListingCounts, ListingSelects, OthersReadHead,
       AnswerExpires, Step
  <2>5. RequestOK'
    <3>1. CASE ApiStart \/ OthersReadHead \/ AnswerExpires
      BY <2>2, <3>1 DEF ApiStart, OthersReadHead, AnswerExpires, ApiInv,
         ApiTypeOK, RequestOK, StatusOK, AnswerOK, ListingOK, Rank
    <3>2. CASE ApiExit \/ RequestFails \/ RequestEnds
      BY <3>2, IdleIsOK DEF ApiExit, RequestFails, RequestEnds, Step
    <3>3. QED
      BY <1>2, <2>1, <2>2, <3>1, <3>2, StatusSteps, LookupSteps, ListingSteps
         DEF ApiStep
  <2>6. KeptOK' /\ chainHead' \in {NoAnswer} \cup Answer
    BY <1>2, <2>1, KeptSteps
  <2>7. QED
    BY <2>1, <2>3, <2>4, <2>5, <2>6 DEF ApiInv, ApiTypeOK, RequestOK
<1>3. QED
  BY <1>1, <1>2 DEF ApiNext

LEMMA ApiInvInit == ApiInit => ApiInv
<1> SUFFICES ASSUME ApiInit PROVE ApiInv
  OBVIOUS
<1>1. TypeOK
  BY TypeInit DEF ApiInit
<1>2. RowsOK
  BY DEF ApiInit, Init, RowsOK, StoredOK, RawOK, OneEach, Down, At
<1>3. QED
  BY <1>1, <1>2 DEF ApiInit, ApiInv, ApiTypeOK, Idle, KeptOK, Kept

LEMMA ApiInvariant == ApiSpec => []ApiInv
BY ApiInvInit, ApiInvStep, PTL DEF ApiSpec

(* Every variable of the indexers and of the API keeps its type; that the  *)
(* counts and the pages stay within the bounds needs distinct numbers.     *)
THEOREM ApiTypeCorrect == ApiSpec => []ApiTypeOK
<1>1. ApiInv => ApiTypeOK
  BY DEF ApiInv
<1>2. QED
  BY <1>1, ApiInvariant, PTL

(* The indexers do not notice the API: with it too, only what was given up *)
(* is missing.                                                             *)
THEOREM ApiLeavesNoHoles == ApiSpec => []HolesWereGivenUp
<1>1. ApiInit => HolesInv
  BY HolesInit DEF ApiInit
<1>2. HolesInv /\ [ApiNext]_<<vars, apiVars>> => HolesInv'
  <2> SUFFICES ASSUME HolesInv, [ApiNext]_<<vars, apiVars>>
               PROVE  HolesInv'
    OBVIOUS
  <2>1. CASE IndexerStep \/ UNCHANGED <<vars, apiVars>>
    BY <2>1, HolesStep DEF IndexerStep
  <2>2. CASE ApiStep
    BY <2>2, ApiLeavesTheTable
       DEF HolesInv, HolesWereGivenUp, Settled, Passed, tableVars
  <2>3. QED
    BY <2>1, <2>2 DEF ApiNext
<1>3. HolesInv => HolesWereGivenUp
  BY DEF HolesInv
<1>4. QED
  BY <1>1, <1>2, <1>3, PTL DEF ApiSpec

(* A status report that says "synchronized" or "environment_mismatch" is   *)
(* true of the chain as the API knew it, though the head may come from an  *)
(* answer kept from before the request, whatever the indexers, the node    *)
(* and the other requests did between its reads.                           *)
THEOREM StatusReportsAreTrue == ApiSpec => []StatusIsTrue
<1>1. ASSUME ApiInv, Answered
      PROVE  /\ StatusAnswer(request) = "synchronized" /\ request.known.fork = fork
                  => request.known.head - MaxNumber(blocks) <= SyncedLag
             /\ StatusAnswer(request) = "environment_mismatch"
                  => fork > 1 \/ request.head < head
  <2>1. /\ request \in Status /\ StatusOK(request) /\ RowsOK /\ blocks \in SUBSET Block
        /\ head \in Heights /\ fork \in 1..MaxFork
    BY <1>1, RequestKinds DEF Answered, ApiInv, ApiTypeOK, TypeOK, ChainTypeOK
  <2>2. MaxNumber(blocks) \in Heights \cup {NoBlock}
    BY <2>1, MaxNumberProperty
  <2>3. /\ request.known.head \in Int /\ request.max \in Int /\ request.head \in Int
        /\ MaxNumber(blocks) \in Int /\ head \in Int /\ fork \in Int
        /\ SyncedLag \in Int /\ NoBlock = -1
    BY <2>1, <2>2, ApiAssumption DEF Status, Answer, Heights, NoBlock
  <2>4. ASSUME StatusAnswer(request) = "synchronized", request.known.fork = fork
        PROVE  request.known.head - MaxNumber(blocks) <= SyncedLag
    <3>1. HasLag(request) /\ request.head - request.max <= SyncedLag
      BY <2>4 DEF StatusAnswer
    <3>2. request.known.head <= request.head
      BY <2>1, <2>3, <2>4, <3>1 DEF HasLag, StatusOK
    <3>3. QED
      BY <2>1, <2>3, <3>1, <3>2 DEF StatusOK
  <2>5. ASSUME StatusAnswer(request) = "environment_mismatch", fork = 1
        PROVE  request.head < head
    <3>1. HasLag(request) /\ request.head < request.max
      BY <2>3, <2>5 DEF StatusAnswer, Mismatch
    <3>2. MaxNumber(blocks) >= 0
      BY <2>1, <2>3, <3>1 DEF HasLag, StatusOK
    <3>3. MaxNumber(blocks) \in Numbers(blocks)
      BY <2>1, <2>3, <3>2, MaxNumberOfNonEmpty DEF MaxNumber
    <3>4. MaxNumber(blocks) <= head
      BY <2>1, <2>5, <3>3 DEF RowsOK, StoredOK, Numbers
    <3>5. QED
      BY <2>1, <2>3, <3>1, <3>4 DEF StatusOK
  <2>6. QED
    BY <2>3, <2>4, <2>5, <2>1
<1>2. ApiInv => StatusIsTrue
  BY <1>1 DEF StatusIsTrue
<1>3. QED
  BY <1>2, ApiInvariant, PTL

(* A client that pages through the blocks to the end has been shown every  *)
(* row that was there when it began, for every page size, unless rows came *)
(* between a count and its page.                                           *)
THEOREM PagingMissesNothing == ApiSpec => []PagesMissNothing
<1>1. ApiInv => PagesMissNothing
  BY DEF ApiInv, ListingOK, PagesMissNothing
<1>2. QED
  BY <1>1, ApiInvariant, PTL
=============================================================================

----------------------------- MODULE DigestProofs ------------------------------
(***************************************************************************)
(* Scan keeps the promise of DailyDigest: for any number of runs and       *)
(* listings, any plan and any length of the report, if runs do not overlap *)
(* whether or not they include listings already seen.                      *)
(***************************************************************************)
EXTENDS ScanProofs

-----------------------------------------------------------------------------
(* A report has at most Top listings: no two candidates have the same      *)
(* number of candidates before them.                                       *)

CandidateType == [item : Items, rank : Nat, score : Nat \ {0}, nth : Nat]

LEMMA ReportFits ==
    ASSUME NEW found, IsFiniteSet(found), found \subseteq CandidateType,
           \A c, d \in found : c.nth = d.nth => c = d
    PROVE  Cardinality({c.item : c \in Printed(found)}) <= Top
<1> DEFINE Ahead(c) == {d \in found : Before(d, c)}
           place == [c \in Printed(found) |-> Cardinality(Ahead(c))]
           name == [c \in Printed(found) |-> c.item]
           names == {c.item : c \in Printed(found)}
<1>1. \A c \in found : IsFiniteSet(Ahead(c)) /\ Cardinality(Ahead(c)) \in Nat
  BY FS_Subset, FS_CardinalityType
<1>2. \A c, d, e \in found : Before(e, c) /\ Before(c, d) => Before(e, d)
  BY DEF Before, CandidateType
<1>3. \A c \in found : ~Before(c, c)
  BY DEF Before, CandidateType
<1>4. \A c, d \in found : c # d => Before(c, d) \/ Before(d, c)
  BY DEF Before, CandidateType
<1>5. ASSUME NEW c \in found, NEW d \in found, Before(c, d)
      PROVE  Cardinality(Ahead(c)) # Cardinality(Ahead(d))
  <2>1. Ahead(c) \in SUBSET Ahead(d) /\ c \in Ahead(d) /\ c \notin Ahead(c)
    BY <1>2, <1>3, <1>5
  <2>2. IsFiniteSet(Ahead(d))
    BY <1>1
  <2> HIDE DEF Ahead
  <2> QED
    BY <2>1, <2>2, FS_Subset
<1>6. Printed(found) \subseteq found /\ \A c \in Printed(found) : Cardinality(Ahead(c)) < Top
  BY DEF Printed
<1>7. place \in [Printed(found) -> 0..(Top - 1)]
  <2> SUFFICES ASSUME NEW c \in Printed(found) PROVE Cardinality(Ahead(c)) \in 0..(Top - 1)
    OBVIOUS
  <2>1. Cardinality(Ahead(c)) \in Nat /\ Cardinality(Ahead(c)) < Top
    BY <1>1, <1>6
  <2> HIDE DEF Ahead
  <2> QED
    BY <2>1, TopAssumption
<1> HIDE DEF Ahead
<1>8. place \in Injection(Printed(found), 0..(Top - 1))
  <2>1. \A c, d \in Printed(found) : place[c] = place[d] => c = d
    BY <1>4, <1>5, <1>6
  <2> HIDE DEF place
  <2> QED
    BY <1>7, <2>1 DEF Injection, IsInjective
<1>9. IsFiniteSet(0..(Top - 1)) /\ Cardinality(0..(Top - 1)) = Top
  BY FS_Interval, TopAssumption
<1>10. IsFiniteSet(Printed(found)) /\ Cardinality(Printed(found)) <= Top
  BY <1>8, <1>9, FS_Injection
<1>11. name \in Surjection(Printed(found), names)
  BY DEF Surjection
<1>12. Cardinality(names) <= Cardinality(Printed(found)) /\ IsFiniteSet(names)
  BY <1>10, <1>11, FS_Surjection
<1>13. Cardinality(names) \in Nat /\ Cardinality(Printed(found)) \in Nat
  BY <1>10, <1>12, FS_CardinalityType
<1> HIDE DEF names
<1>14. Cardinality(names) <= Top
  BY <1>10, <1>12, <1>13, TopAssumption
<1> QED
  BY <1>14 DEF names

-----------------------------------------------------------------------------
(* What a default run has found no report has shown, and a run that has not *)
(* ended has shown nothing.                                                *)

Apart ==
    /\ \A r \in Runs : Active(r) /\ ~mode[r] =>
          \A s \in Runs : Found(r) \cap report[s] = {}
    /\ \A r \in Runs : pc[r] \notin {"done", "aborted"} => report[r] = {}

\* The candidates of a run are numbered in the order of their discovery.
Numbered ==
    \A r \in Runs :
       /\ \A c \in result[r].candidates : c.nth < Cardinality(result[r].candidates)
       /\ \A c, d \in result[r].candidates : c.nth = d.nth => c = d

LEMMA NumberedInductive == TypeInv /\ Numbered /\ [Next]_vars => Numbered'
<1> SUFFICES ASSUME TypeInv, Numbered, [Next]_vars, NEW r \in Runs
             PROVE  /\ \A c \in result'[r].candidates : c.nth < Cardinality(result'[r].candidates)
                    /\ \A c, d \in result'[r].candidates : c.nth = d.nth => c = d
  BY DEF Numbered
<1> DEFINE old == result[r].candidates
<1>1. /\ \A c \in old : c.nth \in Nat /\ c.nth < Cardinality(old)
      /\ \A c, d \in old : c.nth = d.nth => c = d
      /\ IsFiniteSet(old)
  BY DEF Numbered, TypeInv, TypeOK, ScanResult
<1>2. CASE result'[r].candidates = old
  BY <1>1, <1>2
<1>3. CASE Consider(r) /\ result'[r].candidates # old
  <2>1. PICK c : c.nth = Cardinality(old) /\ result'[r].candidates = old \cup {c}
    <3>1. PICK o \in ScanResult :
             /\ result' = [result EXCEPT ![r] = o]
             /\ \/ o.candidates = old
                \/ \E c : c.nth = Cardinality(old) /\ o.candidates = old \cup {c}
      BY <1>3, ConsiderResult
    <3>2. result'[r] = o
      BY <3>1 DEF TypeInv, TypeOK
    <3> QED
      BY <1>3, <3>1, <3>2
  <2> HIDE DEF old
  <2>2. Cardinality(old) \in Nat
    BY <1>1, FS_CardinalityType
  <2>3. c \notin old
    BY <1>1, <2>1, <2>2
  <2>4. Cardinality(old \cup {c}) = Cardinality(old) + 1
    BY <1>1, <2>3, FS_AddElement
  <2> QED
    BY <1>1, <2>1, <2>2, <2>4
<1> QED
  BY <1>2, <1>3, CandidatesStep

LEMMA ApartInductive ==
    ASSUME TypeInv, Alone, Unfound, Filtered, Apart, [Next]_vars
    PROVE  Apart'
<1> USE DEF TypeInv, TypeOK
<1>1. ASSUME NEW r \in Runs, pc'[r] \notin {"done", "aborted"} PROVE report'[r] = {}
  <2>1. ASSUME NEW s \in Runs, Finish(s) PROVE report'[r] = {}
    <3>1. s # r
      BY <1>1, <2>1 DEF Finish
    <3>2. report'[r] = report[r] /\ pc'[r] = pc[r]
      BY <2>1, <3>1 DEF Finish
    <3> QED
      BY <1>1, <3>2 DEF Apart
  <2>2. CASE /\ report' = report
             /\ \A s \in Runs : pc[s] \in {"done", "aborted"} => pc'[s] = pc[s]
    BY <1>1, <2>2 DEF Apart
  <2> QED
    BY <2>1, <2>2, StepCases
       DEF SetVerdict, Begin, QueryOk, QueryFailed, PageDone, LookUp, Record, LeaveOut, Consider,
           Abort, Active, vars
<1>2. ASSUME NEW r \in Runs, Active(r)', ~mode'[r], NEW s \in Runs
      PROVE  Found(r)' \cap report'[s] = {}
  <2>1. CASE pc[r] = "idle"
    <3>1. Found(r)' = {}
      BY <2>1, FoundUnchanged DEF Filtered, FilteredRun
    <3> QED
      BY <3>1
  <2>2. CASE Active(r) /\ ~Consider(r)
    <3>1. ~mode[r]
      BY <1>2, <2>2, StepCases
         DEF SetVerdict, Begin, QueryOk, QueryFailed, PageDone, LookUp, Record, LeaveOut, Consider,
             Finish, Abort, Active, vars
    <3>2. Found(r)' = Found(r)
      BY <2>2, FoundStep
    <3>3. report'[s] = report[s]
      <4>1. ASSUME NEW t \in Runs, Finish(t) PROVE FALSE
        <5>1. t # r
          BY <1>2, <4>1 DEF Finish, Active
        <5> QED
          BY <2>2, <4>1, <5>1 DEF Finish, Alone, Active
      <4> QED
        BY <4>1, StepCases
           DEF SetVerdict, Begin, QueryOk, QueryFailed, PageDone, LookUp, Record, LeaveOut, Consider,
               Abort, vars
    <3> QED
      BY <2>2, <3>1, <3>2, <3>3 DEF Apart
  <2>3. CASE Consider(r)
    <3>1. ~mode[r] /\ report' = report /\ Active(r) /\ pc[r] = "consider" /\ ~cur[r].already
      BY <1>2, <2>3 DEF Consider, Active
    <3>2. Found(r)' \subseteq Found(r) \cup {cur[r].item}
      BY FoundStep
    <3>3. cur[r].item \notin report[s]
      BY <3>1 DEF Unfound
    <3> QED
      BY <3>1, <3>2, <3>3 DEF Apart
  <2>4. pc[r] = "idle" \/ Active(r)
    BY <1>2, StepCases
       DEF SetVerdict, Begin, QueryOk, QueryFailed, PageDone, LookUp, Record, LeaveOut, Consider,
           Finish, Abort, Active, vars
  <2> QED
    BY <2>1, <2>2, <2>3, <2>4
<1> QED
  BY <1>1, <1>2 DEF Apart

-----------------------------------------------------------------------------
(* The state of DailyDigest.                                               *)

ActiveRuns == {s \in Runs : Active(s)}
Excluded   == UNION {rejected[r] : r \in ActiveRuns}
Shown      == UNION {report[r] : r \in Runs}
Again      == \E r \in Runs : Active(r) /\ mode[r]

LEMMA ExcludedByOne == ASSUME Alone, NEW r \in Runs, Active(r) PROVE Excluded = rejected[r]
  BY DEF Alone, Excluded, ActiveRuns

LEMMA ExcludedByNone == ASSUME ActiveRuns = {} PROVE Excluded = {} /\ Again = FALSE
  BY DEF Excluded, Again, ActiveRuns

LEMMA SameAgain == ASSUME mode' = mode, ActiveRuns' = ActiveRuns PROVE Again' = Again
<1>1. \A r \in Runs : Active(r)' <=> Active(r)
  BY DEF ActiveRuns
<1> QED
  BY <1>1 DEF Again

\* Steps DailyDigest does not see.
LEMMA Unseen ==
    ASSUME UNCHANGED <<seen, rejects, mode, rejected, report>>, ActiveRuns' = ActiveRuns
    PROVE  UNCHANGED Digest!vars
<1>1. Excluded' = Excluded /\ Shown' = Shown
  BY DEF Excluded, Shown
<1>2. Again' = Again
  BY SameAgain
<1> QED
  BY <1>1, <1>2 DEF Digest!vars, Excluded, Shown, ActiveRuns, Again

\* A run that stays active.
LEMMA ActiveStays ==
    ASSUME TypeInv, NEW r \in Runs, Active(r), NEW to \in {"search", "page", "record", "consider"},
           pc' = [pc EXCEPT ![r] = to]
    PROVE  ActiveRuns' = ActiveRuns
  BY DEF ActiveRuns, Active, TypeInv, TypeOK

\* The end of a run, after which none is active.
LEMMA NoneLeft ==
    ASSUME TypeInv, Alone, NEW r \in Runs, Active(r), NEW to \in {"done", "aborted"},
           pc' = [pc EXCEPT ![r] = to]
    PROVE  ActiveRuns' = {}
<1>1. \A s \in Runs : s # r => ~Active(s) /\ pc'[s] = pc[s]
  BY DEF Alone, TypeInv, TypeOK
<1>2. pc'[r] = to
  BY DEF TypeInv, TypeOK
<1> QED
  BY <1>1, <1>2 DEF ActiveRuns, Active

IInv ==
    TypeInv /\ Filtered /\ CandidatesAreRecorded /\ Alone /\ Unfound /\ Numbered /\ Apart

\* Every step of a scan is a step of DailyDigest or leaves its state alone.
LEMMA StepImplements ==
    ASSUME ~Overlap, IInv, [Next]_vars
    PROVE  Digest!Next \/ UNCHANGED Digest!vars
<1> USE DEF IInv
<1>1. ASSUME NEW i \in Items, NEW reject \in BOOLEAN, SetVerdict(i, reject) PROVE Digest!Judge
  <2>1. rejects' \in SUBSET Items
    BY <1>1 DEF SetVerdict, TypeInv, TypeOK
  <2>2. Excluded' = Excluded /\ Shown' = Shown /\ seen' = seen /\ Again' = Again
    BY <1>1 DEF SetVerdict, Excluded, Shown, ActiveRuns, Active, Again
  <2> QED
    BY <2>1, <2>2 DEF Digest!Judge, Excluded, Shown, ActiveRuns, Again
<1>2. ASSUME NEW r \in Runs, Begin(r) PROVE Digest!BeginScan
  <2>1. /\ \A s \in Runs : ~Active(s)
        /\ pc' = [pc EXCEPT ![r] = "search"]
        /\ rejected' = [rejected EXCEPT ![r] = rejects]
        /\ UNCHANGED <<seen, rejects, report>>
    BY <1>2 DEF Begin
  <2>2. ActiveRuns' = {r}
    BY <2>1 DEF ActiveRuns, Active, TypeInv, TypeOK
  <2>3. Excluded' = rejects
    BY <2>1, <2>2 DEF Excluded, TypeInv, TypeOK
  <2>4. Shown' = Shown
    BY <2>1 DEF Shown
  <2>5. Again' \in BOOLEAN
    BY DEF Again
  <2> QED
    BY <2>1, <2>3, <2>4, <2>5 DEF Digest!BeginScan, Excluded, Shown, ActiveRuns, Again
<1>3. ASSUME NEW r \in Runs, QueryOk(r) PROVE UNCHANGED Digest!vars
  BY <1>3, ActiveStays, Unseen DEF QueryOk, Active
<1>4. ASSUME NEW r \in Runs, QueryFailed(r) PROVE UNCHANGED Digest!vars
  <2>1. ActiveRuns' = ActiveRuns
    BY <1>4 DEF QueryFailed, ActiveRuns, Active
  <2> QED
    BY <1>4, <2>1, Unseen DEF QueryFailed
<1>5. ASSUME NEW r \in Runs, PageDone(r) PROVE UNCHANGED Digest!vars
  BY <1>5, ActiveStays, Unseen DEF PageDone, Active
<1>6. ASSUME NEW r \in Runs, LookUp(r) PROVE UNCHANGED Digest!vars
  BY <1>6, ActiveStays, Unseen DEF LookUp, Active
<1>7. ASSUME NEW r \in Runs, Record(r) PROVE \E i \in Items : Digest!Consider(i)
  <2>1. /\ pc[r] = "record" /\ Active(r)
        /\ pc' = [pc EXCEPT ![r] = "consider"]
        /\ seen' = seen \cup {cur[r].item}
        /\ UNCHANGED <<rejects, mode, rejected, report>>
    BY <1>7 DEF Record, Active
  <2>2. cur[r].item \in Items /\ cur[r].item \notin Excluded
    BY <2>1, ExcludedByOne DEF TypeInv, Filtered, FilteredRun
  <2>3. ActiveRuns' = ActiveRuns
    BY <2>1, ActiveStays
  <2>4. Excluded' = Excluded /\ Shown' = Shown /\ Again' = Again
    BY <2>1, <2>3, SameAgain DEF Excluded, Shown
  <2>5. Digest!Consider(cur[r].item)
    BY <2>1, <2>2, <2>4 DEF Digest!Consider, Excluded, Shown, ActiveRuns, Again
  <2> QED
    BY <2>2, <2>5
<1>11. ASSUME NEW r \in Runs, LeaveOut(r) PROVE UNCHANGED Digest!vars
  BY <1>11, ActiveStays, Unseen DEF LeaveOut, Active
<1>12. ASSUME NEW r \in Runs, Consider(r) PROVE UNCHANGED Digest!vars
  BY <1>12, ActiveStays, Unseen DEF Consider, Active
<1>8. ASSUME NEW r \in Runs, Finish(r) PROVE \E shown \in SUBSET Items : Digest!Publish(shown)
  <2> DEFINE new == {c.item : c \in Printed(result[r].candidates)}
  <2>1. /\ Active(r)
        /\ pc' = [pc EXCEPT ![r] = "done"]
        /\ report' = [report EXCEPT ![r] = new]
        /\ UNCHANGED <<seen, rejects, rejected>>
    BY <1>8 DEF Finish, Active
  <2>2. new \subseteq Found(r) /\ Found(r) \subseteq seen
    BY DEF Printed, Found, CandidatesAreRecorded
  <2>3. new \cap Excluded = {}
    BY <2>1, <2>2, ExcludedByOne DEF Filtered, FilteredRun
  <2>4. report[r] = {}
    BY <2>1 DEF Apart, Active
  <2>5. Again \/ new \cap Shown = {}
    <3>1. CASE mode[r]
      BY <2>1, <3>1 DEF Again
    <3>2. CASE ~mode[r]
      BY <2>1, <2>2, <3>2 DEF Apart, Shown
    <3> QED
      BY <3>1, <3>2
  <2>6. Cardinality(new) <= Top
    <3>1. /\ IsFiniteSet(result[r].candidates)
          /\ result[r].candidates \subseteq CandidateType
          /\ \A c, d \in result[r].candidates : c.nth = d.nth => c = d
      BY DEF TypeInv, TypeOK, ScanResult, CandidateType, Numbered
    <3> QED
      BY <3>1, ReportFits
  <2>7. Excluded' = {} /\ Again' = FALSE
    <3>1. ActiveRuns' = {}
      BY <2>1, NoneLeft
    <3> QED
      BY <3>1 DEF Excluded, Again, ActiveRuns
  <2>8. Shown' = Shown \cup new
    <3> HIDE DEF new
    <3>1. report' = [s \in Runs |-> IF s = r THEN new ELSE report[s]]
      BY <2>1 DEF TypeInv, TypeOK
    <3>2. Shown' = UNION {report'[s] : s \in Runs}
      BY DEF Shown
    <3> QED
      BY <2>4, <3>1, <3>2 DEF Shown
  <2>9. new \in SUBSET Items
    BY <2>2 DEF TypeInv, TypeOK
  <2>10. Digest!Cardinality(new) = Cardinality(new)
    BY DEF Cardinality, Digest!Cardinality
  <2>11. new \subseteq seen \ Excluded
    BY <2>2, <2>3
  <2> HIDE DEF new
  <2>12. PICK cut \in SUBSET Items : cut = new
    BY <2>9
  <2>13. Digest!Publish(cut)
    BY <2>1, <2>5, <2>6, <2>7, <2>8, <2>10, <2>11, <2>12
       DEF Digest!Publish, Excluded, Shown, ActiveRuns, Again
  <2> QED
    BY <2>12, <2>13
<1>9. ASSUME NEW r \in Runs, Abort(r) PROVE Digest!GiveUp
  <2>1. /\ Active(r)
        /\ pc' = [pc EXCEPT ![r] = "aborted"]
        /\ UNCHANGED <<seen, rejects, report>>
    BY <1>9 DEF Abort
  <2>2. Excluded' = {} /\ Again' = FALSE
    <3>1. ActiveRuns' = {}
      BY <2>1, NoneLeft
    <3> QED
      BY <3>1 DEF Excluded, Again, ActiveRuns
  <2>3. Shown' = Shown
    BY <2>1 DEF Shown
  <2> QED
    BY <2>1, <2>2, <2>3 DEF Digest!GiveUp, Excluded, Shown, ActiveRuns, Again
<1>10. CASE UNCHANGED vars
  <2>1. ActiveRuns' = ActiveRuns
    BY <1>10 DEF vars, ActiveRuns, Active
  <2> QED
    BY <1>10, <2>1, Unseen DEF vars
<1> QED
  BY <1>1, <1>2, <1>3, <1>4, <1>5, <1>6, <1>7, <1>8, <1>9, <1>10, <1>11, <1>12, StepCases
     DEF Digest!Next

\* Runs that do not overlap show the reader a listing a second time only if told to,
\* none that was rejected before the run, and at most Top listings a day, crashes and
\* failed queries included.
THEOREM DigestImplemented ==
    ASSUME ~Overlap
    PROVE  Spec => KeepsDigestPromise
<1>1. Init => Filtered /\ Alone /\ Unfound /\ Numbered /\ Apart
  BY FS_EmptySet
     DEF Init, Filtered, FilteredRun, Alone, Active, Unfound, Numbered, Apart, Found, NoResult
<1>2. Init => Digest!Init
  <2> SUFFICES ASSUME Init PROVE Digest!Init
    OBVIOUS
  <2>1. ActiveRuns = {} /\ Shown = {}
    BY DEF Init, ActiveRuns, Active, Shown
  <2>2. Excluded = {} /\ Again = FALSE
    BY <2>1, ExcludedByNone
  <2> QED
    BY <2>1, <2>2 DEF Init, Digest!Init, Excluded, Shown, ActiveRuns, Again
<1>3. TypeInv /\ Alone /\ [Next]_vars => Alone'
  BY AloneInductive
<1>6. TypeInv /\ Alone /\ CandidatesAreRecorded /\ Unfound /\ [Next]_vars => Unfound'
  BY UnfoundInductive
<1>4. TypeInv /\ Alone /\ Unfound /\ Filtered /\ Apart /\ [Next]_vars => Apart'
  BY ApartInductive
<1>5. TypeInv /\ Filtered /\ CandidatesAreRecorded /\ Alone /\ Unfound /\ Numbered /\ Apart
        /\ [Next]_vars
        => [Digest!Next]_(Digest!vars)
  BY StepImplements DEF IInv
<1> QED
  BY <1>1, <1>2, <1>3, <1>4, <1>5, <1>6, TypeInvariance, RecordedCorrect, FilteredInductive,
     NumberedInductive, PTL DEF Spec, KeepsDigestPromise, Digest!Spec
=============================================================================

------------------------------ MODULE ScanProofs ------------------------------
(***************************************************************************)
(* Theorems about Scan, for any number of runs and listings, any plan of   *)
(* queries and any offers.                                                 *)
(***************************************************************************)
EXTENDS Scan, FiniteSetTheorems, TLAPS

(* What a step of Next is, by cases.                                       *)
LEMMA StepCases ==
    ASSUME [Next]_vars
    PROVE  \/ \E i \in Items, reject \in BOOLEAN : SetVerdict(i, reject)
           \/ \E r \in Runs : Begin(r)
           \/ \E r \in Runs : QueryOk(r)
           \/ \E r \in Runs : QueryFailed(r)
           \/ \E r \in Runs : PageDone(r)
           \/ \E r \in Runs : LookUp(r)
           \/ \E r \in Runs : Record(r)
           \/ \E r \in Runs : LeaveOut(r)
           \/ \E r \in Runs : Consider(r)
           \/ \E r \in Runs : Finish(r)
           \/ \E r \in Runs : Abort(r)
           \/ UNCHANGED vars
  BY DEF Next, RunStep

-----------------------------------------------------------------------------
(* Type correctness.  A run has found finitely many candidates, so the next *)
(* one's place in the order of discovery is a number.                       *)

TypeInv ==
    /\ TypeOK
    /\ \A r \in Runs : IsFiniteSet(result[r].candidates)
    /\ \A r \in Runs : pc[r] \in {"record", "consider"} => cur[r].item \in Items

\* Counting an event changes neither the type of a result nor its candidates.
LEMMA Counted ==
    ASSUME NEW outcome \in ScanResult
    PROVE  LET counted == {[outcome EXCEPT !.apiCalls = @ + 1],
                           [outcome EXCEPT !.errors = @ + 1],
                           [outcome EXCEPT !.searchesRun = @ + 1]}
           IN  \A o \in counted : o \in ScanResult /\ o.candidates = outcome.candidates
  BY DEF ScanResult

LEMMA NextQueryTypes ==
    ASSUME TypeInv, NEW r \in Runs, NEW outcome \in ScanResult, NextQuery(r, outcome),
           outcome.candidates = result[r].candidates
    PROVE  /\ query' \in [Runs -> Nat \ {0}]
           /\ result' \in [Runs -> ScanResult]
           /\ \A s \in Runs : result'[s].candidates = result[s].candidates
<1>1. query' \in [Runs -> Nat \ {0}]
  BY DEF TypeInv, TypeOK, NextQuery
<1>2. PICK o \in ScanResult : /\ o.candidates = result[r].candidates
                               /\ result' = [result EXCEPT ![r] = o]
  <2>1. CASE LastOfSearch(query[r])
    <3>1. result' = [result EXCEPT ![r] = [outcome EXCEPT !.searchesRun = @ + 1]]
      BY <2>1 DEF NextQuery
    <3> QED
      BY <3>1, Counted
  <2>2. CASE ~LastOfSearch(query[r])
    <3>1. result' = [result EXCEPT ![r] = outcome]
      BY <2>2 DEF NextQuery
    <3> QED
      BY <3>1
  <2> QED
    BY <2>1, <2>2
<1> QED
  BY <1>1, <1>2 DEF TypeInv, TypeOK

\* What a result says of queries, as opposed to listings.
SameQueries(o, p) ==
    o.apiCalls = p.apiCalls /\ o.errors = p.errors /\ o.searchesRun = p.searchesRun

\* What Consider does to the result of its run: one listing more is counted, of which
\* at most one new candidate has come, the listing looked up.
LEMMA ConsiderResult ==
    ASSUME TypeInv, NEW r \in Runs, Consider(r)
    PROVE  \E o \in ScanResult :
              /\ result' = [result EXCEPT ![r] = o]
              /\ IsFiniteSet(o.candidates)
              /\ result[r].candidates \subseteq o.candidates
              /\ \A c \in o.candidates \ result[r].candidates :
                    c.item = cur[r].item /\ (~cur[r].already \/ mode[r])
              /\ SameQueries(o, result[r])
              /\ o.itemsNew = result[r].itemsNew + 1
              /\ \/ o.candidates = result[r].candidates
                 \/ \E c : /\ c.nth = Cardinality(result[r].candidates)
                           /\ o.candidates = result[r].candidates \cup {c}
<1> DEFINE old == result[r]
<1>0. old \in ScanResult /\ IsFiniteSet(old.candidates) /\ result \in [Runs -> ScanResult]
  BY DEF TypeInv, TypeOK
<1>1. PICK offer \in Offers :
         result' = [result EXCEPT ![r].itemsNew = @ + 1,
                                  ![r].candidates =
                                      IF offer.score > 0 THEN @ \cup {Candidate(r, offer)} ELSE @]
  BY DEF Consider
<1> DEFINE cands == IF offer.score > 0 THEN old.candidates \cup {Candidate(r, offer)}
                                       ELSE old.candidates
           new == [old EXCEPT !.itemsNew = @ + 1, !.candidates = cands]
<1>2. result' = [result EXCEPT ![r] = new]
  BY <1>0, <1>1 DEF ScanResult
<1>3. IsFiniteSet(cands)
  BY <1>0, FS_AddElement
<1>4. offer.score > 0
        => Candidate(r, offer) \in [item : Items, rank : Nat, score : Nat \ {0}, nth : Nat]
  <2>1. Cardinality(old.candidates) \in Nat
    BY <1>0, FS_CardinalityType
  <2>2. offer.rank \in Nat /\ offer.score \in Nat
    BY OffersAssumption
  <2>3. cur[r].item \in Items
    BY DEF TypeInv, Consider
  <2> QED
    BY <2>1, <2>2, <2>3 DEF Candidate
<1>5. cands \subseteq [item : Items, rank : Nat, score : Nat \ {0}, nth : Nat]
  BY <1>0, <1>4 DEF ScanResult
<1>6. /\ new \in ScanResult /\ new.candidates = cands /\ SameQueries(new, old)
      /\ new.itemsNew = old.itemsNew + 1
  <2> HIDE DEF cands, old
  <2>1. old.itemsNew + 1 \in Nat
    BY <1>0 DEF ScanResult
  <2> QED
    BY <1>0, <1>5, <2>1 DEF ScanResult, SameQueries
<1>7. \A c \in cands \ old.candidates : c.item = cur[r].item
  BY DEF Candidate
<1>8. \/ cands = old.candidates
      \/ \E c : c.nth = Cardinality(old.candidates) /\ cands = old.candidates \cup {c}
  BY DEF Candidate
<1>9. old.candidates \subseteq cands
  OBVIOUS
<1>10. ~cur[r].already \/ mode[r]
  BY DEF Consider
<1> HIDE DEF cands, new
<1> QED
  BY <1>2, <1>3, <1>6, <1>7, <1>8, <1>9, <1>10

LEMMA TypeInvInductive == TypeInv /\ [Next]_vars => TypeInv'
<1> SUFFICES ASSUME TypeInv, [Next]_vars PROVE TypeInv'
  OBVIOUS
<1> USE DEF TypeInv, TypeOK, Listings
<1>1. ASSUME NEW i \in Items, NEW reject \in BOOLEAN, SetVerdict(i, reject)
      PROVE  TypeInv'
  BY <1>1 DEF SetVerdict
<1>2. ASSUME NEW r \in Runs, Begin(r) PROVE TypeInv'
  BY <1>2, ModesAssumption DEF Begin
<1>3. ASSUME NEW r \in Runs, QueryOk(r) PROVE TypeInv'
  <2>1. result' = [result EXCEPT ![r] = [result[r] EXCEPT !.apiCalls = @ + 1]]
    BY <1>3 DEF QueryOk
  <2>2. PICK o \in ScanResult : /\ result' = [result EXCEPT ![r] = o]
                                 /\ o.candidates = result[r].candidates
    BY <2>1, Counted
  <2>3. page' \in [Runs -> SUBSET Items]
    BY <1>3 DEF QueryOk
  <2> QED
    <3>1. /\ pc' = [pc EXCEPT ![r] = "page"]
          /\ UNCHANGED <<seen, rejects, mode, rejected, query, cur, report, exit>>
      BY <1>3 DEF QueryOk
    <3>2. result' \in [Runs -> ScanResult]
          /\ \A s \in Runs : result'[s].candidates = result[s].candidates
      BY <2>2
    <3> QED
      BY <2>3, <3>1, <3>2
<1>4. ASSUME NEW r \in Runs, QueryFailed(r) PROVE TypeInv'
  <2>1. PICK o \in ScanResult : /\ NextQuery(r, o)
                                 /\ o.candidates = result[r].candidates
    BY <1>4, Counted DEF QueryFailed
  <2> QED
    BY <1>4, <2>1, NextQueryTypes DEF QueryFailed
<1>5. ASSUME NEW r \in Runs, PageDone(r) PROVE TypeInv'
  BY <1>5, NextQueryTypes DEF PageDone
<1>6. ASSUME NEW r \in Runs, LookUp(r) PROVE TypeInv'
  BY <1>6 DEF LookUp
<1>7. ASSUME NEW r \in Runs, Record(r) PROVE TypeInv'
  BY <1>7 DEF Record
<1>11. ASSUME NEW r \in Runs, LeaveOut(r) PROVE TypeInv'
  BY <1>11 DEF LeaveOut, NothingLookedUp
<1>12. ASSUME NEW r \in Runs, Consider(r) PROVE TypeInv'
  <2>1. PICK o \in ScanResult : /\ result' = [result EXCEPT ![r] = o]
                                 /\ IsFiniteSet(o.candidates)
    BY <1>12, ConsiderResult
  <2> QED
    BY <1>12, <2>1 DEF Consider, NothingLookedUp
<1>8. ASSUME NEW r \in Runs, Finish(r) PROVE TypeInv'
  <2>1. {c.item : c \in Printed(result[r].candidates)} \subseteq Items
    <3>1. Printed(result[r].candidates) \subseteq result[r].candidates
      BY DEF Printed
    <3>2. result[r].candidates \subseteq [item : Items, rank : Nat, score : Nat \ {0}, nth : Nat]
      BY DEF ScanResult
    <3> QED
      BY <3>1, <3>2
  <2>2. ExitStatus(result[r]) \in {"0", "1"}
    BY DEF ExitStatus
  <2> QED
    BY <1>8, <2>1, <2>2 DEF Finish
<1>9. ASSUME NEW r \in Runs, Abort(r) PROVE TypeInv'
  BY <1>9 DEF Abort, NothingLookedUp
<1>10. CASE UNCHANGED vars
  BY <1>10 DEF vars
<1> HIDE DEF TypeInv
<1> QED
  BY <1>1, <1>2, <1>3, <1>4, <1>5, <1>6, <1>7, <1>8, <1>9, <1>10, <1>11, <1>12, StepCases

LEMMA TypeInvariance == Spec => []TypeInv
<1>1. Init => TypeInv
  <2>1. NoResult \in ScanResult /\ NoResult.candidates = {}
    BY DEF NoResult, ScanResult
  <2>2. NothingLookedUp \in [item : Listings, already : BOOLEAN]
    BY DEF NothingLookedUp, Listings
  <2> QED
    BY <2>1, <2>2, FS_EmptySet DEF Init, TypeInv, TypeOK
<1> QED
  BY <1>1, TypeInvInductive, PTL DEF Spec

\* The tables and the variables of every run keep their types; every candidate has
\* a positive score.
THEOREM TypeCorrect == Spec => []TypeOK
<1>1. TypeInv => TypeOK
  BY DEF TypeInv
<1> QED
  BY <1>1, TypeInvariance, PTL

-----------------------------------------------------------------------------
(* What each step does to the listings a run has found.                     *)

LEMMA CandidatesStep ==
    ASSUME TypeInv, [Next]_vars, NEW s \in Runs
    PROVE  result'[s].candidates = result[s].candidates \/ Consider(s)
<1>0. result[s] \in ScanResult /\ result \in [Runs -> ScanResult]
  BY DEF TypeInv, TypeOK
<1>1. ASSUME NEW r \in Runs, QueryOk(r)
      PROVE  result'[s].candidates = result[s].candidates
  <2>1. result' = [result EXCEPT ![r] = [result[r] EXCEPT !.apiCalls = @ + 1]]
    BY <1>1 DEF QueryOk
  <2> QED
    BY <1>0, <2>1, Counted
<1>2. ASSUME NEW r \in Runs, QueryFailed(r)
      PROVE  result'[s].candidates = result[s].candidates
  BY <1>0, <1>2, Counted, NextQueryTypes DEF QueryFailed
<1>3. ASSUME NEW r \in Runs, PageDone(r)
      PROVE  result'[s].candidates = result[s].candidates
  BY <1>0, <1>3, NextQueryTypes DEF PageDone
<1>4. ASSUME NEW r \in Runs, Consider(r), s # r
      PROVE  result'[s].candidates = result[s].candidates
  BY <1>0, <1>4, ConsiderResult
<1> QED
  BY <1>1, <1>2, <1>3, <1>4, StepCases
  DEF SetVerdict, Begin, LookUp, Record, LeaveOut, Finish, Abort, vars

LEMMA FoundStep ==
    ASSUME TypeInv, [Next]_vars, NEW s \in Runs
    PROVE  \/ Found(s)' = Found(s)
           \/ /\ Consider(s)
              /\ Found(s)' \subseteq Found(s) \cup {cur[s].item}
<1>1. CASE result'[s].candidates = result[s].candidates
  BY <1>1 DEF Found
<1>2. CASE Consider(s)
  <2>1. PICK o \in ScanResult :
           /\ result' = [result EXCEPT ![s] = o]
           /\ \A c \in o.candidates \ result[s].candidates : c.item = cur[s].item
    BY <1>2, ConsiderResult
  <2>2. result'[s].candidates = o.candidates
    BY <2>1 DEF TypeInv, TypeOK
  <2> QED
    BY <1>2, <2>1, <2>2 DEF Found
<1> QED
  BY <1>1, <1>2, CandidatesStep

LEMMA FoundUnchanged ==
    ASSUME TypeInv, [Next]_vars, NEW s \in Runs, pc[s] # "consider" \/ pc'[s] = pc[s]
    PROVE  Found(s)' = Found(s)
<1>1. Consider(s) => pc[s] = "consider" /\ pc'[s] = "page"
  BY DEF Consider, TypeInv, TypeOK
<1> QED
  BY <1>1, FoundStep

\* A report shows some of what its run has found, and nothing else changes it.
LEMMA ReportStep ==
    ASSUME TypeInv, [Next]_vars, NEW s \in Runs
    PROVE  report'[s] = report[s] \/ report'[s] \subseteq Found(s)
<1>1. ASSUME NEW r \in Runs, Finish(r)
      PROVE  report'[s] = report[s] \/ report'[s] \subseteq Found(s)
  <2>1. report' = [report EXCEPT ![r] = {c.item : c \in Printed(result[r].candidates)}]
    BY <1>1 DEF Finish
  <2>2. report \in [Runs -> SUBSET Items]
    BY DEF TypeInv, TypeOK
  <2>3. CASE s = r
    <3>1. report'[s] = {c.item : c \in Printed(result[s].candidates)}
      BY <2>1, <2>2, <2>3
    <3>2. Printed(result[s].candidates) \subseteq result[s].candidates
      BY DEF Printed
    <3> QED
      BY <3>1, <3>2 DEF Found
  <2>4. CASE s # r
    BY <2>1, <2>2, <2>4
  <2> QED
    BY <2>3, <2>4
<1>2. CASE UNCHANGED report
  BY <1>2
<1> QED
  BY <1>1, <1>2, StepCases
  DEF SetVerdict, Begin, QueryOk, QueryFailed, PageDone, LookUp, Record, LeaveOut,
      Consider, Abort, vars

\* The database only grows.
LEMMA SeenStep ==
    ASSUME [Next]_vars
    PROVE  /\ seen \subseteq seen'
           /\ \A r \in Runs : Record(r) => cur[r].item \in seen'
  BY StepCases
  DEF SetVerdict, Begin, QueryOk, QueryFailed, PageDone, LookUp, Record, LeaveOut, Consider,
      Finish, Abort, vars

\* A listing is in the database before anything is made of it.
Committed == \A r \in Runs : pc[r] = "consider" => cur[r].item \in seen

LEMMA CommittedInductive == TypeInv /\ Committed /\ [Next]_vars => Committed'
<1> SUFFICES ASSUME TypeInv, Committed, [Next]_vars, NEW s \in Runs, pc'[s] = "consider"
             PROVE  cur'[s].item \in seen'
  BY DEF Committed
<1> USE DEF TypeInv, TypeOK
<1>1. CASE Record(s)
  BY <1>1, SeenStep DEF Record
<1>2. CASE pc[s] = "consider" /\ cur'[s] = cur[s]
  BY <1>2, SeenStep DEF Committed
<1> QED
  BY <1>1, <1>2, StepCases
  DEF SetVerdict, Begin, QueryOk, QueryFailed, PageDone, LookUp, Record, LeaveOut, Consider,
      Finish, Abort, vars

\* Nothing a run has found or reported is missing from the database, however the
\* runs overlap and wherever one of them is cut off.
THEOREM RecordedCorrect == Spec => []CandidatesAreRecorded
<1>1. Init => CandidatesAreRecorded /\ Committed
  BY DEF Init, CandidatesAreRecorded, Committed, Found, NoResult
<1>2. TypeInv /\ Committed /\ CandidatesAreRecorded /\ [Next]_vars => CandidatesAreRecorded'
  <2> SUFFICES ASSUME TypeInv, Committed, CandidatesAreRecorded, [Next]_vars, NEW r \in Runs
               PROVE  Found(r)' \cup report'[r] \subseteq seen'
    BY DEF CandidatesAreRecorded
  <2>1. Found(r) \cup report[r] \subseteq seen /\ seen \subseteq seen'
    BY SeenStep DEF CandidatesAreRecorded
  <2>2. Found(r)' \subseteq seen'
    <3>1. Consider(r) => cur[r].item \in seen
      BY DEF Consider, Committed
    <3> QED
      BY <2>1, <3>1, FoundStep
  <2>3. report'[r] \subseteq seen'
    BY <2>1, ReportStep
  <2> QED
    BY <2>2, <2>3
<1> QED
  BY <1>1, <1>2, TypeInvariance, CommittedInductive, PTL DEF Spec

-----------------------------------------------------------------------------
(* Rejections.  The run's copy of the rejected ids filters every page, and a *)
(* run that has not begun has nothing to filter.                            *)

FilteredRun(r) ==
    /\ pc[r] = "idle" => Found(r) = {} /\ report[r] = {} /\ page[r] = {}
    /\ page[r] \cap rejected[r] = {}
    /\ pc[r] \in {"record", "consider"} => cur[r].item \notin rejected[r]
    /\ Found(r) \cap rejected[r] = {}
    /\ report[r] \cap rejected[r] = {}

Filtered == \A r \in Runs : FilteredRun(r)

LEMMA FilteredInductive == TypeInv /\ Filtered /\ [Next]_vars => Filtered'
<1> SUFFICES ASSUME TypeInv, Filtered, [Next]_vars, NEW s \in Runs PROVE FilteredRun(s)'
  BY DEF Filtered
<1> DEFINE Same == /\ pc'[s] = pc[s]
                   /\ page'[s] = page[s]
                   /\ rejected'[s] = rejected[s]
                   /\ cur'[s] = cur[s]
                   /\ report'[s] = report[s]
<1>0. FilteredRun(s)
  BY DEF Filtered
<1>00. Same => FilteredRun(s)'
  <2> SUFFICES ASSUME Same PROVE FilteredRun(s)'
    OBVIOUS
  <2>1. Found(s)' = Found(s)
    BY FoundUnchanged
  <2> QED
    BY <2>1, <1>0 DEF FilteredRun
<1>1. CASE UNCHANGED <<pc, page, rejected, cur, report>>
  BY <1>00, <1>1
<1> USE DEF TypeInv, TypeOK
<1>2. ASSUME NEW r \in Runs, Begin(r) PROVE FilteredRun(s)'
  <2>1. CASE s # r
    BY <1>00, <1>2, <2>1 DEF Begin
  <2>2. CASE s = r
    <3>1. /\ pc[s] = "idle" /\ pc'[s] = "search"
          /\ UNCHANGED <<page, report>>
      BY <1>2, <2>2 DEF Begin
    <3>2. Found(s)' = Found(s)
      BY <3>1, FoundUnchanged
    <3> QED
      BY <1>0, <3>1, <3>2 DEF FilteredRun
  <2> QED
    BY <2>1, <2>2
<1>3. ASSUME NEW r \in Runs, QueryOk(r) PROVE FilteredRun(s)'
  <2>1. CASE s # r
    BY <1>00, <1>3, <2>1 DEF QueryOk
  <2>2. CASE s = r
    <3>1. /\ pc[s] = "search" /\ pc'[s] = "page"
          /\ UNCHANGED <<rejected, report>>
          /\ page'[s] \cap rejected[s] = {}
      BY <1>3, <2>2 DEF QueryOk
    <3>2. Found(s)' = Found(s)
      BY <3>1, FoundUnchanged
    <3> QED
      BY <1>0, <3>1, <3>2 DEF FilteredRun
  <2> QED
    BY <2>1, <2>2
<1>4. ASSUME NEW r \in Runs, PageDone(r) PROVE FilteredRun(s)'
  <2>1. CASE s # r
    BY <1>00, <1>4, <2>1 DEF PageDone
  <2>2. CASE s = r
    <3>1. /\ pc[s] = "page" /\ pc'[s] = "search"
          /\ UNCHANGED <<page, rejected, report>>
      BY <1>4, <2>2 DEF PageDone
    <3>2. Found(s)' = Found(s)
      BY <3>1, FoundUnchanged
    <3> QED
      BY <1>0, <3>1, <3>2 DEF FilteredRun
  <2> QED
    BY <2>1, <2>2
<1>5. ASSUME NEW r \in Runs, LookUp(r) PROVE FilteredRun(s)'
  <2>1. CASE s # r
    BY <1>00, <1>5, <2>1 DEF LookUp
  <2>2. CASE s = r
    <3>1. /\ pc[s] = "page" /\ pc'[s] = "record"
          /\ UNCHANGED <<rejected, report>>
          /\ page'[s] \subseteq page[s]
          /\ cur'[s].item \in page[s]
      BY <1>5, <2>2 DEF LookUp
    <3>2. Found(s)' = Found(s)
      BY <3>1, FoundUnchanged
    <3> QED
      BY <1>0, <3>1, <3>2 DEF FilteredRun
  <2> QED
    BY <2>1, <2>2
<1>6. ASSUME NEW r \in Runs, Record(r) PROVE FilteredRun(s)'
  <2>1. CASE s # r
    BY <1>00, <1>6, <2>1 DEF Record
  <2>2. CASE s = r
    <3>1. /\ pc[s] = "record" /\ pc'[s] = "consider"
          /\ UNCHANGED <<rejected, report, page, cur>>
      BY <1>6, <2>2 DEF Record
    <3>2. Found(s)' = Found(s)
      BY <3>1, FoundUnchanged
    <3> QED
      BY <1>0, <3>1, <3>2 DEF FilteredRun
  <2> QED
    BY <2>1, <2>2
<1>9. ASSUME NEW r \in Runs, LeaveOut(r) \/ Consider(r) PROVE FilteredRun(s)'
  <2>1. CASE s # r
    BY <1>00, <1>9, <2>1 DEF LeaveOut, Consider
  <2>2. CASE s = r
    <3>1. /\ pc[s] = "consider" /\ pc'[s] = "page"
          /\ UNCHANGED <<rejected, report, page>>
      BY <1>9, <2>2 DEF LeaveOut, Consider
    <3>2. Found(s)' \subseteq Found(s) \cup {cur[s].item}
      BY FoundStep
    <3> QED
      BY <1>0, <3>1, <3>2 DEF FilteredRun
  <2> QED
    BY <2>1, <2>2
<1>7. ASSUME NEW r \in Runs, Finish(r) PROVE FilteredRun(s)'
  <2>1. CASE s # r
    BY <1>00, <1>7, <2>1 DEF Finish
  <2>2. CASE s = r
    <3>1. /\ pc[s] = "search" /\ pc'[s] = "done"
          /\ UNCHANGED <<rejected, page>>
      BY <1>7, <2>2 DEF Finish
    <3>2. Found(s)' = Found(s)
      BY <3>1, FoundUnchanged
    <3>3. report'[s] = report[s] \/ report'[s] \subseteq Found(s)
      BY ReportStep
    <3> QED
      BY <1>0, <3>1, <3>2, <3>3 DEF FilteredRun
  <2> QED
    BY <2>1, <2>2
<1>8. ASSUME NEW r \in Runs, Abort(r) PROVE FilteredRun(s)'
  <2>1. CASE s # r
    BY <1>00, <1>8, <2>1 DEF Abort
  <2>2. CASE s = r
    <3>1. /\ pc'[s] = "aborted"
          /\ UNCHANGED <<rejected, report>>
          /\ page'[s] = {}
      BY <1>8, <2>2 DEF Abort
    <3>2. Found(s)' = Found(s)
      <4>1. ~Consider(s)
        BY <3>1 DEF Consider
      <4> QED
        BY <4>1, FoundStep
    <3> QED
      BY <1>0, <3>1, <3>2 DEF FilteredRun
  <2> QED
    BY <2>1, <2>2
<1> QED
  BY <1>1, <1>2, <1>3, <1>4, <1>5, <1>6, <1>7, <1>8, <1>9, StepCases
  DEF SetVerdict, QueryFailed, vars

\* A listing rejected before a run begins is never among its candidates nor in its
\* report, whatever eBay returns and however verdicts change during the run.
THEOREM RejectedCorrect == Spec => []RejectedStayHidden
<1>1. Init => Filtered
  BY DEF Init, Filtered, FilteredRun, Found, NoResult
<1>2. Filtered => RejectedStayHidden
  BY DEF Filtered, FilteredRun, RejectedStayHidden
<1> QED
  BY <1>1, <1>2, TypeInvariance, FilteredInductive, PTL DEF Spec

-----------------------------------------------------------------------------
(* No repeats.  While runs do not overlap, what has_seen answered is still   *)
(* true when record_seen commits, and the listing is nowhere else when the   *)
(* run takes it up.                                                         *)

Alone ==
    /\ \A r, s \in Runs : Active(r) /\ Active(s) => r = s
    /\ \A r \in Runs : pc[r] = "record" /\ ~cur[r].already => cur[r].item \notin seen

LEMMA AloneInductive ==
    ASSUME ~Overlap, TypeInv, Alone, [Next]_vars
    PROVE  Alone'
<1> USE DEF TypeInv, TypeOK, Alone, Active
<1>1. ASSUME NEW i \in Items, NEW reject \in BOOLEAN, SetVerdict(i, reject)
      PROVE  Alone'
  BY <1>1 DEF SetVerdict
<1>2. ASSUME NEW r \in Runs, Begin(r) PROVE Alone'
  BY <1>2 DEF Begin
<1>3. ASSUME NEW r \in Runs, QueryOk(r) PROVE Alone'
  BY <1>3 DEF QueryOk
<1>4. ASSUME NEW r \in Runs, QueryFailed(r) PROVE Alone'
  BY <1>4 DEF QueryFailed
<1>5. ASSUME NEW r \in Runs, PageDone(r) PROVE Alone'
  BY <1>5 DEF PageDone
<1>6. ASSUME NEW r \in Runs, LookUp(r) PROVE Alone'
  <2>1. pc[r] = "page" /\ pc' = [pc EXCEPT ![r] = "record"] /\ seen' = seen
    BY <1>6 DEF LookUp
  <2>2. PICK i \in page[r] : cur' = [cur EXCEPT ![r] = [item |-> i, already |-> i \in seen]]
    BY <1>6 DEF LookUp
  <2>3. \A s \in Runs : Active(s)' => Active(s)
    BY <2>1
  <2>4. \A t, s \in Runs : Active(t)' /\ Active(s)' => t = s
    BY <2>3
  <2>5. ~cur'[r].already => cur'[r].item \notin seen
    BY <2>2
  <2>6. \A s \in Runs : s # r => pc'[s] = pc[s] /\ cur'[s] = cur[s]
    BY <2>1, <2>2
  <2> QED
    BY <2>1, <2>4, <2>5, <2>6
<1>7. ASSUME NEW r \in Runs, Record(r) PROVE Alone'
  <2>1. \A s \in Runs : pc[s] = "record" => s = r
    BY <1>7 DEF Record
  <2>2. pc' = [pc EXCEPT ![r] = "consider"]
    BY <1>7 DEF Record
  <2>3. \A s \in Runs : pc'[s] # "record"
    BY <2>1, <2>2
  <2>4. \A s \in Runs : Active(s)' => Active(s)
    BY <1>7, <2>2 DEF Record
  <2>5. \A t, s \in Runs : Active(t)' /\ Active(s)' => t = s
    BY <2>4
  <2> QED
    BY <2>3, <2>5
<1>11. ASSUME NEW r \in Runs, LeaveOut(r) PROVE Alone'
  BY <1>11 DEF LeaveOut
<1>12. ASSUME NEW r \in Runs, Consider(r) PROVE Alone'
  BY <1>12 DEF Consider
<1>8. ASSUME NEW r \in Runs, Finish(r) PROVE Alone'
  BY <1>8 DEF Finish
<1>9. ASSUME NEW r \in Runs, Abort(r) PROVE Alone'
  BY <1>9 DEF Abort
<1>10. CASE UNCHANGED vars
  BY <1>10 DEF vars
<1> HIDE DEF Alone
<1> QED
  BY <1>1, <1>2, <1>3, <1>4, <1>5, <1>6, <1>7, <1>8, <1>9, <1>10, <1>11, <1>12, StepCases

\* What a run has recorded as new no run has found or shown.
Unfound ==
    \A r \in Runs : pc[r] = "consider" /\ ~cur[r].already =>
        \A s \in Runs : cur[r].item \notin Found(s) \cup report[s]

LEMMA UnfoundInductive ==
    ASSUME TypeInv, Alone, CandidatesAreRecorded, Unfound, [Next]_vars
    PROVE  Unfound'
<1> SUFFICES ASSUME NEW r \in Runs, pc'[r] = "consider", ~cur'[r].already, NEW s \in Runs
             PROVE  cur'[r].item \notin Found(s)' \cup report'[s]
  BY DEF Unfound
<1>1. CASE Record(r)
  <2>1. /\ pc[r] = "record" /\ cur' = cur /\ report' = report
        /\ cur[r].item \notin seen
    BY <1>1 DEF Record, Alone
  <2>2. pc[s] # "consider"
    BY <2>1 DEF Alone, Active
  <2>3. Found(s)' = Found(s)
    BY <2>2, FoundUnchanged
  <2> QED
    BY <2>1, <2>3 DEF CandidatesAreRecorded
<1>2. CASE pc[r] = "consider" /\ cur'[r] = cur[r]
  <2>1. cur[r].item \notin Found(s) \cup report[s]
    BY <1>2 DEF Unfound
  <2>2. pc[s] # "consider" \/ pc'[s] = pc[s]
    BY <1>2 DEF Alone, Active
  <2>3. Found(s)' = Found(s)
    BY <2>2, FoundUnchanged
  <2> QED
    BY <1>2, <2>1, <2>3, ReportStep
<1> QED
  BY <1>1, <1>2, StepCases
  DEF SetVerdict, Begin, QueryOk, QueryFailed, PageDone, LookUp, Record, LeaveOut, Consider,
      Finish, Abort, vars, TypeInv, TypeOK

LEMMA NewToAll ==
    ASSUME TypeInv, Unfound, [Next]_vars,
           NEW r \in Runs, ~mode[r],
           NEW c \in result'[r].candidates \ result[r].candidates,
           NEW s \in Runs
    PROVE  c.item \notin Found(s) \cup report[s]
<1>1. Consider(r)
  BY CandidatesStep
<1>2. c.item = cur[r].item /\ ~cur[r].already
  <2>1. PICK o \in ScanResult :
           /\ result' = [result EXCEPT ![r] = o]
           /\ \A d \in o.candidates \ result[r].candidates :
                 d.item = cur[r].item /\ (~cur[r].already \/ mode[r])
    BY <1>1, ConsiderResult
  <2>2. result'[r] = o
    BY <2>1 DEF TypeInv, TypeOK
  <2> QED
    BY <2>1, <2>2
<1> QED
  BY <1>1, <1>2 DEF Unfound, Consider

\* As long as runs do not overlap, a run without --include-seen never takes up a
\* listing that any run has found or shown before, crashes and failed queries
\* included.
THEOREM NoRepeat ==
    ASSUME ~Overlap
    PROVE  Spec => NothingSurfacesTwice
<1>1. Init => Alone /\ Unfound
  BY DEF Init, Alone, Active, Unfound
<1>2. TypeInv /\ Alone /\ [Next]_vars => Alone'
  BY AloneInductive
<1>4. TypeInv /\ Alone /\ CandidatesAreRecorded /\ Unfound /\ [Next]_vars => Unfound'
  BY UnfoundInductive
<1>3. TypeInv /\ Unfound /\ [Next]_vars
        => [\A r \in Runs : ~mode[r] =>
              \A c \in result'[r].candidates \ result[r].candidates :
                 \A s \in Runs : c.item \notin Found(s) \cup report[s]]_vars
  BY NewToAll
<1> QED
  BY <1>1, <1>2, <1>3, <1>4, TypeInvariance, RecordedCorrect, PTL
     DEF Spec, NothingSurfacesTwice

-----------------------------------------------------------------------------
(* The counts of a run.  EveryQueryCounted speaks of a finished run; during *)
(* one, the counts are those of the queries before the current one, where  *)
(* a search that the current query belongs to has begun but not ended.     *)

\* The searches of the queries before the k-th.
Ran(k) == {Plan[q] : q \in 1..(k - 1)}

\* The k-th query goes on with the search of the one before.
Continues(k) == k > 1 /\ k <= Len(Plan) /\ Plan[k] = Plan[k - 1]

CountedRun(r) ==
    LET answered == IF pc[r] \in {"page", "record", "consider"} THEN 1 ELSE 0
        open     == IF Continues(query[r]) THEN 1 ELSE 0
    IN  /\ query[r] \in 1..(Len(Plan) + 1)
        /\ pc[r] \in {"page", "record", "consider"} => query[r] <= Len(Plan)
        /\ pc[r] = "done" => query[r] = Len(Plan) + 1
        /\ result[r].apiCalls + result[r].errors = query[r] - 1 + answered
        /\ IsFiniteSet(Ran(query[r]))
        /\ result[r].searchesRun + open = Cardinality(Ran(query[r]))

\* An aborted run counts no more.
CountInv == \A r \in Runs : pc[r] # "aborted" => CountedRun(r)

\* The next query adds its search to those run, unless it is there already, which the
\* order of the plan makes a question of the query before.
LEMMA RanGrows ==
    ASSUME NEW k \in 1..Len(Plan), IsFiniteSet(Ran(k))
    PROVE  /\ IsFiniteSet(Ran(k + 1))
           /\ Cardinality(Ran(k)) \in Nat
           /\ Cardinality(Ran(k + 1)) = Cardinality(Ran(k)) + (IF Continues(k) THEN 0 ELSE 1)
           /\ Continues(k + 1) <=> ~LastOfSearch(k)
<1>1. Plan \in Seq(Nat) /\ DOMAIN Plan = 1..Len(Plan) /\ Len(Plan) \in Nat
  BY PlanAssumption
<1>2. Ran(k + 1) = Ran(k) \cup {Plan[k]}
  BY <1>1 DEF Ran
<1>3. Continues(k) <=> Plan[k] \in Ran(k)
  <2>1. ASSUME Continues(k) PROVE Plan[k] \in Ran(k)
    BY <1>1, <2>1 DEF Continues, Ran
  <2>2. ASSUME Plan[k] \in Ran(k) PROVE Continues(k)
    <3>1. PICK q \in 1..(k - 1) : Plan[q] = Plan[k]
      BY <2>2 DEF Ran
    <3>2. k > 1 /\ k - 1 \in DOMAIN Plan /\ q \in DOMAIN Plan /\ k \in DOMAIN Plan
      BY <1>1, <3>1
    <3>3. Plan[k - 1] <= Plan[k] /\ Plan[q] <= Plan[k - 1]
      <4>1. CASE q = k - 1
        BY PlanAssumption, <1>1, <3>1, <3>2, <4>1
      <4>2. CASE q < k - 1
        BY PlanAssumption, <1>1, <3>1, <3>2, <4>2
      <4> QED
        BY PlanAssumption, <1>1, <3>2, <4>1, <4>2
    <3>4. Plan[k - 1] \in Nat /\ Plan[k] \in Nat
      BY <1>1, <3>2
    <3>5. Plan[k - 1] = Plan[k]
      BY <3>1, <3>3, <3>4
    <3> QED
      BY <1>1, <3>2, <3>5 DEF Continues
  <2> QED
    BY <2>1, <2>2
<1>4. /\ IsFiniteSet(Ran(k) \cup {Plan[k]})
      /\ Cardinality(Ran(k) \cup {Plan[k]}) =
            IF Plan[k] \in Ran(k) THEN Cardinality(Ran(k)) ELSE Cardinality(Ran(k)) + 1
  BY FS_AddElement
<1>5. Cardinality(Ran(k)) \in Nat
  BY FS_CardinalityType
<1>6. Cardinality(Ran(k + 1)) = Cardinality(Ran(k)) + (IF Continues(k) THEN 0 ELSE 1)
  <2>1. CASE Continues(k)
    <3>1. Cardinality(Ran(k + 1)) = Cardinality(Ran(k))
      BY <1>2, <1>3, <1>4, <2>1
    <3>2. \A n \in Nat : n = n + 0
      OBVIOUS
    <3> QED
      BY <1>5, <2>1, <3>1, <3>2, Zenon
  <2>2. CASE ~Continues(k)
    BY <1>2, <1>3, <1>4, <1>5, <2>2
  <2> QED
    BY <2>1, <2>2
<1>7. Continues(k + 1) <=> ~LastOfSearch(k)
  <2>1. k \in Nat /\ k >= 1 /\ k <= Len(Plan)
    BY <1>1
  <2>2. (k + 1) - 1 = k /\ k + 1 > 1
    BY <2>1
  <2>3. k + 1 <= Len(Plan) <=> k # Len(Plan)
    <3>1. \A a, b \in Nat : a <= b => (a + 1 <= b <=> a # b)
      OBVIOUS
    <3> QED
      BY <1>1, <2>1, <3>1, Zenon
  <2> QED
    BY <2>2, <2>3 DEF Continues, LastOfSearch
<1> QED
  BY <1>2, <1>4, <1>5, <1>6, <1>7

\* The end of a query, answered or not.
LEMMA NextQueryCounts ==
    ASSUME TypeInv, NEW r \in Runs, CountedRun(r), query[r] <= Len(Plan),
           NEW outcome \in ScanResult, NextQuery(r, outcome), pc'[r] = "search",
           outcome.apiCalls + outcome.errors = query[r],
           outcome.searchesRun = result[r].searchesRun
    PROVE  CountedRun(r)'
<1> DEFINE k == query[r]
<1>1. k \in 1..Len(Plan) /\ Len(Plan) \in Nat /\ IsFiniteSet(Ran(k))
  BY PlanAssumption DEF CountedRun
<1>2. query'[r] = k + 1
  BY DEF NextQuery, TypeInv, TypeOK
<1>3. /\ result'[r].apiCalls = outcome.apiCalls
      /\ result'[r].errors = outcome.errors
      /\ result'[r].searchesRun = outcome.searchesRun + (IF LastOfSearch(k) THEN 1 ELSE 0)
  <2>1. outcome.searchesRun \in Nat
    BY DEF ScanResult
  <2>2. CASE LastOfSearch(k)
    <3>1. result' = [result EXCEPT ![r] = [outcome EXCEPT !.searchesRun = @ + 1]]
      BY <2>2 DEF NextQuery
    <3>2. result'[r] = [outcome EXCEPT !.searchesRun = @ + 1]
      BY <3>1 DEF TypeInv, TypeOK
    <3> QED
      BY <2>2, <3>2 DEF ScanResult
  <2>3. CASE ~LastOfSearch(k)
    <3>1. result' = [result EXCEPT ![r] = outcome]
      BY <2>3 DEF NextQuery
    <3>2. result'[r] = outcome
      BY <3>1 DEF TypeInv, TypeOK
    <3> QED
      BY <2>1, <2>3, <3>2
  <2> QED
    BY <2>2, <2>3
<1>4. /\ result[r].searchesRun + (IF Continues(k) THEN 1 ELSE 0) = Cardinality(Ran(k))
      /\ result[r].searchesRun \in Nat
  BY DEF CountedRun, TypeInv, TypeOK, ScanResult
<1>5. result'[r].searchesRun + (IF Continues(k + 1) THEN 1 ELSE 0) = Cardinality(Ran(k + 1))
  BY <1>1, <1>3, <1>4, RanGrows
<1>6. IsFiniteSet(Ran(k + 1))
  BY <1>1, RanGrows
<1> HIDE DEF k
<1> QED
  <2>1. query'[r] \in 1..(Len(Plan) + 1)
    BY <1>1, <1>2
  <2>2. result'[r].apiCalls + result'[r].errors = query'[r] - 1
    BY <1>1, <1>2, <1>3 DEF k
  <2> QED
    BY <1>2, <1>5, <1>6, <2>1, <2>2 DEF CountedRun, Ran, Continues

\* A step that changes neither the place nor the counts of a run.
LEMMA CountsStay ==
    ASSUME NEW s \in Runs, CountedRun(s), query'[s] = query[s],
           pc'[s] = pc[s] \/ {pc[s], pc'[s]} \subseteq {"idle", "search"}
                          \/ {pc[s], pc'[s]} \subseteq {"page", "record", "consider"},
           result'[s].apiCalls = result[s].apiCalls,
           result'[s].errors = result[s].errors,
           result'[s].searchesRun = result[s].searchesRun
    PROVE  CountedRun(s)'
  BY DEF CountedRun, Ran, Continues

LEMMA CountInvInductive == TypeInv /\ CountInv /\ [Next]_vars => CountInv'
<1> SUFFICES ASSUME TypeInv, CountInv, [Next]_vars, NEW s \in Runs, pc'[s] # "aborted"
             PROVE  CountedRun(s)'
  BY DEF CountInv
<1>0. pc[s] # "aborted" => CountedRun(s)
  BY DEF CountInv
<1>1. ASSUME NEW i \in Items, NEW reject \in BOOLEAN, SetVerdict(i, reject)
      PROVE  CountedRun(s)'
  BY <1>0, <1>1, CountsStay DEF SetVerdict
<1>2. ASSUME NEW r \in Runs, Begin(r) PROVE CountedRun(s)'
  BY <1>0, <1>2, CountsStay DEF Begin, TypeInv, TypeOK
<1>3. ASSUME NEW r \in Runs, QueryOk(r) PROVE CountedRun(s)'
  <2>1. result' = [result EXCEPT ![r] = [result[r] EXCEPT !.apiCalls = @ + 1]]
    BY <1>3 DEF QueryOk
  <2>2. CASE s = r
    <3>1. /\ result'[s].apiCalls = result[s].apiCalls + 1
          /\ result'[s].errors = result[s].errors
          /\ result'[s].searchesRun = result[s].searchesRun
      BY <2>1, <2>2 DEF TypeInv, TypeOK, ScanResult
    <3>2. pc[s] = "search" /\ pc'[s] = "page" /\ query'[s] = query[s] /\ query[s] <= Len(Plan)
      BY <1>3, <2>2 DEF QueryOk, TypeInv, TypeOK
    <3>3. result[s].apiCalls \in Nat /\ result[s].errors \in Nat /\ query[s] \in Nat
      BY DEF TypeInv, TypeOK, ScanResult
    <3> QED
      BY <1>0, <3>1, <3>2, <3>3 DEF CountedRun, Ran, Continues
  <2>3. CASE s # r
    BY <1>0, <1>3, <2>1, <2>3, CountsStay DEF QueryOk, TypeInv, TypeOK
  <2> QED
    BY <2>2, <2>3
<1>4. ASSUME NEW r \in Runs, QueryFailed(r) PROVE CountedRun(s)'
  <2>1. CASE s = r
    <3> DEFINE o == [result[s] EXCEPT !.errors = @ + 1]
    <3>1. NextQuery(s, o) /\ query[s] <= Len(Plan) /\ pc[s] = "search" /\ pc'[s] = "search"
      BY <1>4, <2>1 DEF QueryFailed
    <3>2. /\ o \in ScanResult
          /\ o.apiCalls = result[s].apiCalls
          /\ o.errors = result[s].errors + 1
          /\ o.searchesRun = result[s].searchesRun
      BY DEF TypeInv, TypeOK, ScanResult
    <3>3. result[s].apiCalls \in Nat /\ result[s].errors \in Nat /\ query[s] \in Nat
      BY DEF TypeInv, TypeOK, ScanResult
    <3> HIDE DEF o
    <3>4. o.apiCalls + o.errors = query[s]
      BY <1>0, <3>1, <3>2, <3>3 DEF CountedRun
    <3> QED
      BY <1>0, <3>1, <3>2, <3>4, NextQueryCounts
  <2>2. CASE s # r
    BY <1>0, <1>4, <2>2, CountsStay DEF QueryFailed, NextQuery, TypeInv, TypeOK
  <2> QED
    BY <2>1, <2>2
<1>5. ASSUME NEW r \in Runs, PageDone(r) PROVE CountedRun(s)'
  <2>1. CASE s = r
    <3>1. NextQuery(s, result[s]) /\ pc[s] = "page" /\ pc'[s] = "search"
      BY <1>5, <2>1 DEF PageDone, TypeInv, TypeOK
    <3>2. result[s] \in ScanResult /\ query[s] \in Nat
      BY DEF TypeInv, TypeOK
    <3>3. query[s] <= Len(Plan) /\ result[s].apiCalls + result[s].errors = query[s]
      BY <1>0, <3>1, <3>2 DEF CountedRun
    <3> QED
      BY <1>0, <3>1, <3>2, <3>3, NextQueryCounts
  <2>2. CASE s # r
    BY <1>0, <1>5, <2>2, CountsStay DEF PageDone, NextQuery, TypeInv, TypeOK
  <2> QED
    BY <2>1, <2>2
<1>6. ASSUME NEW r \in Runs, LookUp(r) PROVE CountedRun(s)'
  BY <1>0, <1>6, CountsStay DEF LookUp, TypeInv, TypeOK
<1>7. ASSUME NEW r \in Runs, Record(r) PROVE CountedRun(s)'
  BY <1>0, <1>7, CountsStay DEF Record, TypeInv, TypeOK
<1>11. ASSUME NEW r \in Runs, LeaveOut(r) PROVE CountedRun(s)'
  BY <1>0, <1>11, CountsStay DEF LeaveOut, TypeInv, TypeOK
<1>12. ASSUME NEW r \in Runs, Consider(r) PROVE CountedRun(s)'
  <2>1. PICK o \in ScanResult : result' = [result EXCEPT ![r] = o] /\ SameQueries(o, result[r])
    BY <1>12, ConsiderResult
  <2>2. SameQueries(result'[s], result[s])
    BY <2>1 DEF TypeInv, TypeOK, SameQueries
  <2> QED
    BY <1>0, <1>12, <2>2, CountsStay DEF Consider, TypeInv, TypeOK, SameQueries
<1>8. ASSUME NEW r \in Runs, Finish(r) PROVE CountedRun(s)'
  <2>1. CASE s = r
    <3>1. /\ pc[s] = "search" /\ pc'[s] = "done"
          /\ query'[s] = query[s] /\ result'[s] = result[s]
          /\ query[s] > Len(Plan)
      BY <1>8, <2>1 DEF Finish, TypeInv, TypeOK
    <3>2. query[s] = Len(Plan) + 1
      BY <1>0, <3>1, PlanAssumption DEF CountedRun
    <3> QED
      BY <1>0, <3>1, <3>2 DEF CountedRun, Ran, Continues
  <2>2. CASE s # r
    BY <1>0, <1>8, <2>2, CountsStay DEF Finish, TypeInv, TypeOK
  <2> QED
    BY <2>1, <2>2
<1>9. ASSUME NEW r \in Runs, Abort(r) PROVE CountedRun(s)'
  BY <1>0, <1>9, CountsStay DEF Abort, TypeInv, TypeOK
<1>10. CASE UNCHANGED vars
  BY <1>0, <1>10, CountsStay DEF vars
<1> QED
  BY <1>1, <1>2, <1>3, <1>4, <1>5, <1>6, <1>7, <1>8, <1>9, <1>10, <1>11, <1>12, StepCases

LEMMA CountInvariance == Spec => []CountInv
<1>1. Init => CountInv
  <2>1. Ran(1) = {}
    BY DEF Ran
  <2>2. Len(Plan) \in Nat
    BY PlanAssumption
  <2>3. IsFiniteSet(Ran(1)) /\ Cardinality(Ran(1)) = 0
    BY <2>1, FS_EmptySet
  <2> SUFFICES ASSUME Init, NEW r \in Runs PROVE CountedRun(r)
    BY DEF CountInv
  <2>4. pc[r] = "idle" /\ query[r] = 1 /\ result[r] = NoResult
    BY DEF Init
  <2> QED
    BY <2>2, <2>3, <2>4 DEF CountedRun, Continues, NoResult
<1> QED
  BY <1>1, TypeInvariance, CountInvInductive, PTL DEF Spec

\* A finished run has had an answer or an error for each query of its plan and has
\* counted each search once, however many of its queries have failed.
THEOREM CountCorrect == Spec => []EveryQueryCounted
<1>1. TypeInv /\ CountInv => EveryQueryCounted
  <2> SUFFICES ASSUME TypeInv, CountInv, NEW r \in Runs, pc[r] = "done"
               PROVE  /\ result[r].apiCalls + result[r].errors = Len(Plan)
                      /\ result[r].searchesRun = Cardinality({Plan[q] : q \in DOMAIN Plan})
    BY DEF EveryQueryCounted
  <2>1. CountedRun(r) /\ query[r] = Len(Plan) + 1
    BY DEF CountInv, CountedRun
  <2>2. Ran(Len(Plan) + 1) = {Plan[q] : q \in DOMAIN Plan}
    BY PlanAssumption DEF Ran
  <2>3. ~Continues(Len(Plan) + 1)
    BY PlanAssumption DEF Continues
  <2>4. result[r].searchesRun \in Nat /\ Len(Plan) \in Nat
    BY PlanAssumption DEF TypeInv, TypeOK, ScanResult
  <2>5. result[r].searchesRun = Cardinality(Ran(Len(Plan) + 1))
    <3>1. result[r].searchesRun + 0 = Cardinality(Ran(Len(Plan) + 1))
      BY <2>1, <2>3 DEF CountedRun
    <3> QED
      BY <2>4, <3>1
  <2>6. result[r].apiCalls + result[r].errors = Len(Plan)
    BY <2>1, <2>4 DEF CountedRun
  <2> QED
    BY <2>2, <2>5, <2>6
<1> QED
  BY <1>1, TypeInvariance, CountInvariance, PTL

\* What cmd_scan makes of the counts: it never returns the other status of cli.py:298.
ReportsExitWithZero == \A r \in Runs : pc[r] = "done" => exit[r] = "0"

\* After the last query a failed one has left its search among those run.
LEMMA ErrorsAreOfSearchesRun ==
    ASSUME TypeInv, NEW r \in Runs, CountedRun(r), pc[r] = "search", query[r] > Len(Plan)
    PROVE  ExitStatus(result[r]) = "0"
<1>1. /\ Len(Plan) \in Nat /\ query[r] \in Nat /\ result[r].searchesRun \in Nat
      /\ result[r].errors \in Nat /\ result[r].apiCalls \in Nat
  BY PlanAssumption DEF TypeInv, TypeOK, ScanResult
<1>2. query[r] = Len(Plan) + 1
  BY <1>1 DEF CountedRun
<1>3. ~Continues(query[r])
  BY <1>1, <1>2 DEF Continues
<1>4. /\ result[r].searchesRun = Cardinality(Ran(query[r])) /\ IsFiniteSet(Ran(query[r]))
      /\ result[r].apiCalls + result[r].errors = Len(Plan)
  BY <1>1, <1>2, <1>3 DEF CountedRun
<1>5. CASE result[r].errors > 0
  <2>1. 1 \in 1..(query[r] - 1)
    BY <1>1, <1>2, <1>4, <1>5
  <2>2. Plan[1] \in Ran(query[r])
    BY <2>1 DEF Ran
  <2>3. result[r].searchesRun # 0
    BY <1>4, <2>2, FS_EmptySet
  <2> QED
    BY <2>3 DEF ExitStatus
<1>6. CASE ~(result[r].errors > 0)
  BY <1>6 DEF ExitStatus
<1> QED
  BY <1>5, <1>6

\* No scan that reaches its report exits otherwise than with 0, whatever the watchlist
\* and however many of its queries fail: searches_run is never 0 where an error has been
\* counted, so the test of cli.py:298 cannot succeed.
THEOREM ExitCorrect == Spec => []ReportsExitWithZero
<1>1. Init => ReportsExitWithZero
  BY DEF Init, ReportsExitWithZero
<1>2. TypeInv /\ CountInv /\ ReportsExitWithZero /\ [Next]_vars => ReportsExitWithZero'
  <2> SUFFICES ASSUME TypeInv, CountInv, ReportsExitWithZero, [Next]_vars
               PROVE  ReportsExitWithZero'
    OBVIOUS
  <2> USE DEF ReportsExitWithZero, TypeInv, TypeOK
  <2>1. ASSUME NEW r \in Runs, Finish(r) PROVE ReportsExitWithZero'
    <3>1. pc[r] = "search" /\ query[r] > Len(Plan) /\ exit' = [exit EXCEPT ![r] = ExitStatus(result[r])]
          /\ pc' = [pc EXCEPT ![r] = "done"]
      BY <2>1 DEF Finish
    <3>2. ExitStatus(result[r]) = "0"
      BY <3>1, ErrorsAreOfSearchesRun DEF CountInv
    <3> QED
      BY <3>1, <3>2
  <2>2. ASSUME NEW r \in Runs, Abort(r) PROVE ReportsExitWithZero'
    BY <2>2 DEF Abort
  <2>3. ASSUME NEW r \in Runs, Begin(r) \/ QueryOk(r) \/ QueryFailed(r) \/ PageDone(r)
        PROVE  ReportsExitWithZero'
    BY <2>3 DEF Begin, QueryOk, QueryFailed, PageDone
  <2>4. ASSUME NEW r \in Runs, LookUp(r) \/ Record(r) \/ LeaveOut(r) \/ Consider(r)
        PROVE  ReportsExitWithZero'
    BY <2>4 DEF LookUp, Record, LeaveOut, Consider
  <2>5. ASSUME NEW i \in Items, NEW reject \in BOOLEAN, SetVerdict(i, reject)
        PROVE  ReportsExitWithZero'
    BY <2>5 DEF SetVerdict
  <2>6. CASE UNCHANGED vars
    BY <2>6 DEF vars
  <2> QED
    BY <2>1, <2>2, <2>3, <2>4, <2>5, <2>6, StepCases
<1> QED
  BY <1>1, <1>2, TypeInvariance, CountInvariance, PTL DEF Spec

-----------------------------------------------------------------------------
(* Listings counted as new.  A default run counts what the database lacked, *)
(* one step after it has recorded it, where it may be cut short.            *)

\* Runs that have recorded a listing they are still to count.
Owing == {r \in Runs : pc[r] = "consider" /\ ~cur[r].already}

CountsBalance ==
    /\ IsFiniteSet(seen) /\ IsFiniteSet(NewlyCounted)
    /\ IsFiniteSet(Owing) /\ IsFiniteSet(MayOweACount)
    /\ Cardinality(NewlyCounted) + Cardinality(Owing) <= Cardinality(seen)
    /\ Cardinality(seen) <= Cardinality(NewlyCounted) + Cardinality(MayOweACount)

NewInv ==
    /\ \A r \in Runs : pc[r] = "idle" => ~mode[r]
    /\ \A r \in Runs : pc[r] \in {"record", "consider"} /\ cur[r].already
                          => cur[r].item \in seen
    /\ (\A r \in Runs : ~mode[r]) => CountsBalance

\* A step that records no listing and counts none.
LEMMA BalanceStays ==
    ASSUME CountsBalance, seen' = seen,
           \A r \in Runs : result'[r].itemsNew = result[r].itemsNew,
           Owing' \subseteq Owing, MayOweACount \subseteq MayOweACount',
           IsFiniteSet(MayOweACount')
    PROVE  CountsBalance'
<1>1. NewlyCounted' = NewlyCounted
  BY DEF NewlyCounted
<1>2. IsFiniteSet(Owing') /\ Cardinality(Owing') <= Cardinality(Owing)
  BY FS_Subset DEF CountsBalance
<1>3. Cardinality(MayOweACount) <= Cardinality(MayOweACount')
  BY FS_Subset
<1>4. /\ Cardinality(Owing) \in Nat /\ Cardinality(Owing') \in Nat
      /\ Cardinality(MayOweACount) \in Nat /\ Cardinality(MayOweACount') \in Nat
      /\ Cardinality(seen) \in Nat /\ Cardinality(NewlyCounted) \in Nat
  BY <1>2, FS_CardinalityType DEF CountsBalance
<1> QED
  BY <1>1, <1>2, <1>3, <1>4 DEF CountsBalance

\* A step that moves no run to or from the two statements.
LEMMA NewCountsStay ==
    ASSUME NewInv, seen' = seen, \A r \in Runs : mode[r] => mode'[r],
           \A r \in Runs : result'[r].itemsNew = result[r].itemsNew,
           \A r \in Runs : pc'[r] = "idle" => pc[r] = "idle" /\ mode'[r] = mode[r],
           \A r \in Runs : pc'[r] = "record" /\ cur'[r].already => cur'[r].item \in seen,
           \A r \in Runs : pc'[r] = "consider" => pc[r] = "consider" /\ cur'[r] = cur[r],
           \A r \in Runs : pc[r] = "consider" =>
               pc'[r] \in {"consider", "aborted"} \/ cur[r].already,
           \A r \in Runs : pc[r] = "aborted" => pc'[r] = "aborted",
           IsFiniteSet(MayOweACount) => IsFiniteSet(MayOweACount')
    PROVE  NewInv'
<1>1. Owing' \subseteq Owing /\ MayOweACount \subseteq MayOweACount'
  BY DEF Owing, MayOweACount
<1>2. CountsBalance => CountsBalance'
  BY <1>1, BalanceStays DEF CountsBalance
<1>3. \A r \in Runs : pc'[r] \in {"record", "consider"} /\ cur'[r].already
                         => cur'[r].item \in seen'
  BY DEF NewInv
<1> QED
  BY <1>2, <1>3 DEF NewInv

LEMMA SameDebtors ==
    ASSUME \A r \in Runs : pc'[r] \in {"consider", "aborted"} <=> pc[r] \in {"consider", "aborted"},
           \A r \in Runs : pc[r] \in {"consider", "aborted"} =>
               pc'[r] = pc[r] /\ cur'[r] = cur[r]
    PROVE  MayOweACount' = MayOweACount
  BY DEF MayOweACount

LEMMA NextQueryCountsNothingNew ==
    ASSUME TypeInv, NEW r \in Runs, NEW outcome \in ScanResult, NextQuery(r, outcome),
           outcome.itemsNew = result[r].itemsNew
    PROVE  \A s \in Runs : result'[s].itemsNew = result[s].itemsNew
  BY DEF TypeInv, TypeOK, NextQuery, ScanResult

\* What the database lacked is owed from the moment it is recorded.
LEMMA RecordBalances ==
    ASSUME TypeInv, Alone, NewInv, CountsBalance, NEW r \in Runs, Record(r)
    PROVE  CountsBalance'
<1>0. /\ seen' = seen \cup {cur[r].item} /\ result' = result /\ cur' = cur
      /\ pc[r] = "record" /\ pc' = [pc EXCEPT ![r] = "consider"]
  BY DEF Record
<1>1. NewlyCounted' = NewlyCounted
  BY <1>0 DEF NewlyCounted
<1>2. CASE cur[r].already
  <2>1. seen' = seen
    BY <1>0, <1>2 DEF NewInv
  <2>2. Owing' = Owing /\ MayOweACount' = MayOweACount
    BY <1>0, <1>2 DEF Owing, MayOweACount, TypeInv, TypeOK
  <2> QED
    BY <1>1, <2>1, <2>2 DEF CountsBalance
<1>3. CASE ~cur[r].already
  <2>1. cur[r].item \notin seen
    BY <1>0, <1>3 DEF Alone
  <2>2. IsFiniteSet(seen') /\ Cardinality(seen') = Cardinality(seen) + 1
    BY <1>0, <2>1, FS_AddElement DEF CountsBalance
  <2>3. Owing' = Owing \cup {r} /\ r \notin Owing
    BY <1>0, <1>3 DEF Owing, TypeInv, TypeOK
  <2>4. IsFiniteSet(Owing') /\ Cardinality(Owing') = Cardinality(Owing) + 1
    BY <2>3, FS_AddElement DEF CountsBalance
  <2>5. MayOweACount' = MayOweACount \cup {r} /\ r \notin MayOweACount
    BY <1>0, <1>3 DEF MayOweACount, TypeInv, TypeOK
  <2>6. /\ IsFiniteSet(MayOweACount')
        /\ Cardinality(MayOweACount') = Cardinality(MayOweACount) + 1
    BY <2>5, FS_AddElement DEF CountsBalance
  <2>7. /\ Cardinality(Owing) \in Nat /\ Cardinality(MayOweACount) \in Nat
        /\ Cardinality(seen) \in Nat /\ Cardinality(NewlyCounted) \in Nat
    BY FS_CardinalityType DEF CountsBalance
  <2> QED
    BY <1>1, <2>2, <2>4, <2>6, <2>7 DEF CountsBalance
<1> QED
  BY <1>2, <1>3

\* The debt is settled when the listing is counted.
LEMMA ConsiderBalances ==
    ASSUME TypeInv, CountsBalance, NEW r \in Runs, Consider(r), ~mode[r]
    PROVE  CountsBalance'
<1>0. /\ seen' = seen /\ pc[r] = "consider" /\ ~cur[r].already
      /\ pc' = [pc EXCEPT ![r] = "page"]
      /\ \A s \in Runs : s # r => cur'[s] = cur[s]
  BY DEF Consider, TypeInv, TypeOK
<1>1. PICK o \in ScanResult : /\ result' = [result EXCEPT ![r] = o]
                               /\ o.itemsNew = result[r].itemsNew + 1
  BY ConsiderResult
<1> DEFINE n == result[r].itemsNew + 1
<1>2. result[r].itemsNew \in Nat
  BY DEF ScanResult, TypeInv, TypeOK
<1>3. \A s \in Runs : result'[s].itemsNew = IF s = r THEN n ELSE result[s].itemsNew
  BY <1>1 DEF TypeInv, TypeOK
<1>4. 1..n = (1..result[r].itemsNew) \cup {n} /\ n \notin 1..result[r].itemsNew
  BY <1>2
<1> HIDE DEF n
<1>5. NewlyCounted' = NewlyCounted \cup {<<r, n>>}
  BY <1>3, <1>4 DEF NewlyCounted
<1>6. <<r, n>> \notin NewlyCounted
  BY <1>4 DEF NewlyCounted
<1>7. /\ IsFiniteSet(NewlyCounted')
      /\ Cardinality(NewlyCounted') = Cardinality(NewlyCounted) + 1
  BY <1>5, <1>6, FS_AddElement DEF CountsBalance
<1>8. Owing' = Owing \ {r} /\ r \in Owing
  BY <1>0 DEF Owing, TypeInv, TypeOK
<1>9. IsFiniteSet(Owing') /\ Cardinality(Owing') = Cardinality(Owing) - 1
  BY <1>8, FS_RemoveElement DEF CountsBalance
<1>10. MayOweACount' = MayOweACount \ {r} /\ r \in MayOweACount
  BY <1>0 DEF MayOweACount, TypeInv, TypeOK
<1>11. /\ IsFiniteSet(MayOweACount')
       /\ Cardinality(MayOweACount') = Cardinality(MayOweACount) - 1
  BY <1>10, FS_RemoveElement DEF CountsBalance
<1>12. /\ Cardinality(Owing) \in Nat /\ Cardinality(MayOweACount) \in Nat
       /\ Cardinality(seen) \in Nat /\ Cardinality(NewlyCounted) \in Nat
  BY FS_CardinalityType DEF CountsBalance
<1> QED
  BY <1>0, <1>7, <1>9, <1>11, <1>12 DEF CountsBalance

LEMMA NewInvInductive ==
    ASSUME TypeInv, Alone, NewInv, [Next]_vars
    PROVE  NewInv'
<1> USE DEF TypeInv, TypeOK
<1>0. \A r \in Runs : pc[r] = "record" /\ cur[r].already => cur[r].item \in seen
  BY DEF NewInv
<1>1. ASSUME NEW i \in Items, NEW reject \in BOOLEAN, SetVerdict(i, reject)
      PROVE  NewInv'
  BY <1>0, <1>1, NewCountsStay, SameDebtors DEF SetVerdict
<1>2. ASSUME NEW r \in Runs, Begin(r) PROVE NewInv'
  <2>1. ~mode[r]
    BY <1>2 DEF Begin, NewInv
  <2>2. PICK m \in Modes : mode' = [mode EXCEPT ![r] = m]
    BY <1>2 DEF Begin
  <2>3. /\ pc[r] = "idle" /\ pc' = [pc EXCEPT ![r] = "search"]
        /\ UNCHANGED <<seen, cur, result>>
    BY <1>2 DEF Begin
  <2>4. \A s \in Runs : pc'[s] = "idle" => pc[s] = "idle" /\ mode'[s] = mode[s]
    BY <2>2, <2>3
  <2>5. \A s \in Runs : mode[s] => mode'[s]
    BY <2>1, <2>2
  <2>6. MayOweACount' = MayOweACount
    BY <2>3, SameDebtors
  <2>7. /\ \A s \in Runs : pc'[s] = "record" => pc[s] = "record" /\ cur'[s] = cur[s]
        /\ \A s \in Runs : pc'[s] = "consider" <=> pc[s] = "consider"
        /\ \A s \in Runs : pc'[s] = "aborted" <=> pc[s] = "aborted"
    BY <2>3
  <2> QED
    BY <1>0, <2>3, <2>4, <2>5, <2>6, <2>7, NewCountsStay
<1>3. ASSUME NEW r \in Runs, QueryOk(r) PROVE NewInv'
  <2>1. \A s \in Runs : result'[s].itemsNew = result[s].itemsNew
    BY <1>3 DEF QueryOk, ScanResult
  <2>2. MayOweACount' = MayOweACount
    BY <1>3, SameDebtors DEF QueryOk
  <2> QED
    BY <1>0, <1>3, <2>1, <2>2, NewCountsStay DEF QueryOk
<1>4. ASSUME NEW r \in Runs, QueryFailed(r) PROVE NewInv'
  <2> DEFINE o == [result[r] EXCEPT !.errors = @ + 1]
  <2>1. o \in ScanResult /\ o.itemsNew = result[r].itemsNew
    BY DEF ScanResult
  <2>2. NextQuery(r, o)
    BY <1>4 DEF QueryFailed
  <2> HIDE DEF o
  <2>3. \A s \in Runs : result'[s].itemsNew = result[s].itemsNew
    BY <2>1, <2>2, NextQueryCountsNothingNew
  <2>4. MayOweACount' = MayOweACount
    BY <1>4, SameDebtors DEF QueryFailed
  <2> QED
    BY <1>0, <1>4, <2>3, <2>4, NewCountsStay DEF QueryFailed
<1>5. ASSUME NEW r \in Runs, PageDone(r) PROVE NewInv'
  <2>1. \A s \in Runs : result'[s].itemsNew = result[s].itemsNew
    BY <1>5, NextQueryCountsNothingNew DEF PageDone
  <2>2. MayOweACount' = MayOweACount
    BY <1>5, SameDebtors DEF PageDone
  <2> QED
    BY <1>0, <1>5, <2>1, <2>2, NewCountsStay DEF PageDone
<1>6. ASSUME NEW r \in Runs, LookUp(r) PROVE NewInv'
  <2>1. /\ pc[r] = "page" /\ pc' = [pc EXCEPT ![r] = "record"]
        /\ UNCHANGED <<seen, mode, result>>
    BY <1>6 DEF LookUp
  <2>2. PICK i \in page[r] : cur' = [cur EXCEPT ![r] = [item |-> i, already |-> i \in seen]]
    BY <1>6 DEF LookUp
  <2>3. cur'[r].already => cur'[r].item \in seen
    BY <2>2
  <2>4. \A s \in Runs : s # r => pc'[s] = pc[s] /\ cur'[s] = cur[s]
    BY <2>1, <2>2
  <2>5. \A s \in Runs : pc'[s] = "record" /\ cur'[s].already => cur'[s].item \in seen
    BY <1>0, <2>3, <2>4
  <2>6. \A s \in Runs : pc'[s] = "idle" => pc[s] = "idle" /\ mode'[s] = mode[s]
    BY <2>1
  <2>7. MayOweACount' = MayOweACount
    BY <2>1, <2>4, SameDebtors
  <2>8. /\ \A s \in Runs : pc'[s] = "consider" => pc[s] = "consider" /\ cur'[s] = cur[s]
        /\ \A s \in Runs : pc[s] = "consider" => pc'[s] = "consider"
        /\ \A s \in Runs : pc[s] = "aborted" => pc'[s] = "aborted"
    BY <2>1, <2>4
  <2> QED
    BY <2>1, <2>5, <2>6, <2>7, <2>8, NewCountsStay
<1>7. ASSUME NEW r \in Runs, Record(r) PROVE NewInv'
  <2>1. /\ seen' = seen \cup {cur[r].item} /\ mode' = mode /\ cur' = cur
        /\ pc[r] = "record" /\ pc' = [pc EXCEPT ![r] = "consider"]
    BY <1>7 DEF Record
  <2>2. \A s \in Runs : pc'[s] = "idle" => ~mode'[s]
    BY <2>1 DEF NewInv
  <2>3. \A s \in Runs : pc'[s] \in {"record", "consider"} /\ cur'[s].already
                           => cur'[s].item \in seen'
    BY <2>1 DEF NewInv
  <2>4. CountsBalance => CountsBalance'
    BY <1>7, RecordBalances
  <2> QED
    BY <2>1, <2>2, <2>3, <2>4 DEF NewInv
<1>11. ASSUME NEW r \in Runs, LeaveOut(r) PROVE NewInv'
  <2>1. MayOweACount' \subseteq MayOweACount
    BY <1>11 DEF LeaveOut, MayOweACount
  <2>2. IsFiniteSet(MayOweACount) => IsFiniteSet(MayOweACount')
    BY <2>1, FS_Subset
  <2> QED
    BY <1>0, <1>11, <2>2, NewCountsStay DEF LeaveOut
<1>12. ASSUME NEW r \in Runs, Consider(r) PROVE NewInv'
  <2>1. /\ seen' = seen /\ mode' = mode
        /\ pc' = [pc EXCEPT ![r] = "page"]
        /\ \A s \in Runs : s # r => cur'[s] = cur[s]
    BY <1>12 DEF Consider
  <2>2. \A s \in Runs : pc'[s] = "idle" => ~mode'[s]
    BY <2>1 DEF NewInv
  <2>3. \A s \in Runs : pc'[s] \in {"record", "consider"} /\ cur'[s].already
                           => cur'[s].item \in seen'
    BY <2>1 DEF NewInv
  <2>4. CountsBalance /\ ~mode[r] => CountsBalance'
    BY <1>12, ConsiderBalances
  <2> QED
    BY <2>1, <2>2, <2>3, <2>4 DEF NewInv
<1>8. ASSUME NEW r \in Runs, Finish(r) PROVE NewInv'
  <2>1. MayOweACount' = MayOweACount
    BY <1>8, SameDebtors DEF Finish
  <2> QED
    BY <1>0, <1>8, <2>1, NewCountsStay DEF Finish
<1>9. ASSUME NEW r \in Runs, Abort(r) PROVE NewInv'
  <2>1. MayOweACount' \subseteq MayOweACount \cup {r}
    BY <1>9 DEF Abort, MayOweACount
  <2>2. IsFiniteSet(MayOweACount) => IsFiniteSet(MayOweACount \cup {r})
    BY FS_AddElement
  <2>3. IsFiniteSet(MayOweACount) => IsFiniteSet(MayOweACount')
    BY <2>1, <2>2, FS_Subset
  <2> QED
    BY <1>0, <1>9, <2>3, NewCountsStay DEF Abort
<1>10. CASE UNCHANGED vars
  <2>1. MayOweACount' = MayOweACount
    BY <1>10, SameDebtors DEF vars
  <2> QED
    BY <1>0, <1>10, <2>1, NewCountsStay DEF vars
<1> HIDE DEF TypeInv
<1> QED
  BY <1>1, <1>2, <1>3, <1>4, <1>5, <1>6, <1>7, <1>8, <1>9, <1>10, <1>11, <1>12, StepCases

\* As long as runs do not overlap, what default runs have counted as new adds up to
\* what the database holds, but for at most one listing of each run that was cut short,
\* whichever of them fail, crash or are rejected in part.
THEOREM NewCountsCorrect ==
    ASSUME ~Overlap
    PROVE  Spec => []NewCountsAddUp
<1>1. Init => Alone /\ NewInv
  <2> SUFFICES ASSUME Init PROVE Alone /\ NewInv
    OBVIOUS
  <2>1. NewlyCounted = {} /\ Owing = {} /\ MayOweACount = {} /\ seen = {}
    BY DEF Init, NewlyCounted, NoResult, Owing, MayOweACount
  <2>2. CountsBalance
    BY <2>1, FS_EmptySet DEF CountsBalance
  <2> QED
    BY <2>1, <2>2 DEF Init, Alone, Active, NewInv
<1>2. NewInv => NewCountsAddUp
  <2> SUFFICES ASSUME CountsBalance
               PROVE  /\ Cardinality(NewlyCounted) <= Cardinality(seen)
                      /\ Cardinality(seen)
                            <= Cardinality(NewlyCounted) + Cardinality(MayOweACount)
    BY DEF NewInv, NewCountsAddUp
  <2>1. /\ Cardinality(Owing) \in Nat /\ Cardinality(NewlyCounted) \in Nat
        /\ Cardinality(seen) \in Nat
    BY FS_CardinalityType DEF CountsBalance
  <2> QED
    BY <2>1 DEF CountsBalance
<1>3. TypeInv /\ Alone /\ [Next]_vars => Alone'
  BY AloneInductive
<1>4. TypeInv /\ Alone /\ NewInv /\ [Next]_vars => NewInv'
  BY NewInvInductive
<1> QED
  BY <1>1, <1>2, <1>3, <1>4, TypeInvariance, PTL DEF Spec
=============================================================================

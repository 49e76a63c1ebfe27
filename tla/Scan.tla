--------------------------------- MODULE Scan ---------------------------------
(***************************************************************************)
(* The daily scan: scan and format_report of app/services/scanner.py, run  *)
(* by cmd_scan of app/cli.py, over the seen_items and verdicts tables of   *)
(* app/storage.py.  A run is one execution of the scan command.  Every     *)
(* statement on the database commits by itself, so runs that overlap       *)
(* interleave between them, and what a run has committed survives it.      *)
(*                                                                         *)
(* How a listing is classified and priced is left to what eBay returns: an *)
(* offer is the rank of its pickup tier and its score, 0 when the scan     *)
(* drops it.  Both may differ between two sightings of a listing, with its *)
(* price and with the search that found it.                                *)
(*                                                                         *)
(* An operator named ...Mutant is a wrong version of the one that follows  *)
(* it, used to confirm that a property notices the fault.                  *)
(***************************************************************************)
EXTENDS Naturals, Sequences, FiniteSets

CONSTANTS
    Runs,      \* executions of the scan command
    Items,     \* ids of listings
    NoId,      \* a listing that carries no id
    Plan,      \* the queries of a scan: the search each (search, anchor) pair is of
    Offers,    \* [rank, score] a listing may be given
    Top,       \* --top
    Modes,     \* the values of --include-seen runs are started with
    Overlap    \* whether a run may start while another is active

\* The queries of a search follow each other.
ASSUME PlanAssumption    == /\ Plan \in Seq(Nat)
                            /\ \A p, q \in DOMAIN Plan : p < q => Plan[p] <= Plan[q]
ASSUME NoIdAssumption    == NoId \notin Items
ASSUME OffersAssumption  == Offers \subseteq [rank : Nat, score : Nat]
ASSUME TopAssumption     == Top \in Nat
ASSUME ModesAssumption   == Modes \subseteq BOOLEAN
ASSUME OverlapAssumption == Overlap \in BOOLEAN

VARIABLES
    seen,      \* storage: ids in seen_items
    rejects,   \* storage: ids whose verdict is "reject"
    pc,        \* where each run is
    mode,      \* include_seen of each run
    rejected,  \* the run's copy of the rejected ids
    query,     \* the query of Plan the run is at
    page,      \* listings of the answer still to be processed
    cur,       \* the listing looked up and the answer of has_seen
    result,    \* the run's ScanResult
    report,    \* ids the run's report has shown
    exit       \* exit status of the command, "none" while it runs

vars == <<seen, rejects, pc, mode, rejected, query, page, cur, result, report, exit>>

-----------------------------------------------------------------------------
Listings == Items \cup {NoId}

NoResult == [apiCalls |-> 0, errors |-> 0, itemsNew |-> 0,
             searchesRun |-> 0, candidates |-> {}]

NothingLookedUp == [item |-> NoId, already |-> FALSE]

Active(r) == pc[r] \notin {"idle", "done", "aborted"}

Init ==
    /\ seen = {}
    /\ rejects = {}
    /\ pc = [r \in Runs |-> "idle"]
    /\ mode = [r \in Runs |-> FALSE]
    /\ rejected = [r \in Runs |-> {}]
    /\ query = [r \in Runs |-> 1]
    /\ page = [r \in Runs |-> {}]
    /\ cur = [r \in Runs |-> NothingLookedUp]
    /\ result = [r \in Runs |-> NoResult]
    /\ report = [r \in Runs |-> {}]
    /\ exit = [r \in Runs |-> "none"]

\* Storage.set_verdict, by the owner of the list; verdicts other than "reject"
\* only take the listing out of the rejected ones.
SetVerdict(i, reject) ==
    /\ rejects' = IF reject THEN rejects \cup {i} ELSE rejects \ {i}
    /\ UNCHANGED <<seen, pc, mode, rejected, query, page, cur, result, report, exit>>

\* cmd_scan opens the storage and scan reads the rejected ids, once.
Begin(r) ==
    /\ pc[r] = "idle"
    /\ Overlap \/ \A s \in Runs : ~Active(s)
    /\ \E m \in Modes : mode' = [mode EXCEPT ![r] = m]
    /\ rejected' = [rejected EXCEPT ![r] = rejects]
    /\ pc' = [pc EXCEPT ![r] = "search"]
    /\ UNCHANGED <<seen, rejects, query, page, cur, result, report, exit>>

-----------------------------------------------------------------------------
(* The queries.                                                            *)

LastOfSearch(q) == q = Len(Plan) \/ Plan[q + 1] # Plan[q]

\* The query is over: the next one, and a search more once its anchors are done,
\* whatever came of them.
NextQuery(r, outcome) ==
    /\ query' = [query EXCEPT ![r] = @ + 1]
    /\ result' = [result EXCEPT ![r] =
           IF LastOfSearch(query[r]) THEN [outcome EXCEPT !.searchesRun = @ + 1]
                                     ELSE outcome]

QueryOkIgnoringVerdictsMutant(r) ==
    /\ pc[r] = "search"
    /\ query[r] <= Len(Plan)
    /\ \E answer \in SUBSET Listings : page' = [page EXCEPT ![r] = answer \ {NoId}]
    /\ result' = [result EXCEPT ![r].apiCalls = @ + 1]
    /\ pc' = [pc EXCEPT ![r] = "page"]
    /\ UNCHANGED <<seen, rejects, mode, rejected, query, cur, report, exit>>

\* eBay answers with any listings.  Those that carry no id and those rejected
\* before the run began are passed over, which touches nothing.
QueryOk(r) ==
    /\ pc[r] = "search"
    /\ query[r] <= Len(Plan)
    /\ \E answer \in SUBSET Listings :
          page' = [page EXCEPT ![r] = answer \ ({NoId} \cup rejected[r])]
    /\ result' = [result EXCEPT ![r].apiCalls = @ + 1]
    /\ pc' = [pc EXCEPT ![r] = "page"]
    /\ UNCHANGED <<seen, rejects, mode, rejected, query, cur, report, exit>>

QueryFailedEndsSearchMutant(r) ==
    /\ pc[r] = "search"
    /\ query[r] <= Len(Plan)
    /\ query' = [query EXCEPT ![r] = Len(Plan) + 1]
    /\ result' = [result EXCEPT ![r].errors = @ + 1]
    /\ UNCHANGED <<seen, rejects, pc, mode, rejected, page, cur, report, exit>>

\* An EbayError or InvalidSearchRequest costs one query only.
QueryFailed(r) ==
    /\ pc[r] = "search"
    /\ query[r] <= Len(Plan)
    /\ NextQuery(r, [result[r] EXCEPT !.errors = @ + 1])
    /\ UNCHANGED <<seen, rejects, pc, mode, rejected, page, cur, report, exit>>

PageDone(r) ==
    /\ pc[r] = "page"
    /\ page[r] = {}
    /\ pc' = [pc EXCEPT ![r] = "search"]
    /\ NextQuery(r, result[r])
    /\ UNCHANGED <<seen, rejects, mode, rejected, page, cur, report, exit>>

-----------------------------------------------------------------------------
(* The listings of a page, in the order eBay sent them (any order).        *)

\* Storage.has_seen.
LookUp(r) ==
    /\ pc[r] = "page"
    /\ \E i \in page[r] :
          /\ page' = [page EXCEPT ![r] = @ \ {i}]
          /\ cur' = [cur EXCEPT ![r] = [item |-> i, already |-> i \in seen]]
    /\ pc' = [pc EXCEPT ![r] = "record"]
    /\ UNCHANGED <<seen, rejects, mode, rejected, query, result, report, exit>>

Candidate(r, offer) ==
    [item |-> cur[r].item, rank |-> offer.rank, score |-> offer.score,
     nth |-> Cardinality(result[r].candidates)]

RecordKnownOnlyMutant(r) ==
    /\ pc[r] = "record"
    /\ seen' = IF cur[r].already THEN seen \cup {cur[r].item} ELSE seen
    /\ pc' = [pc EXCEPT ![r] = "consider"]
    /\ UNCHANGED <<rejects, mode, rejected, query, page, cur, result, report, exit>>

\* Storage.record_seen, committed before anything else is made of the listing.
Record(r) ==
    /\ pc[r] = "record"
    /\ seen' = seen \cup {cur[r].item}
    /\ pc' = [pc EXCEPT ![r] = "consider"]
    /\ UNCHANGED <<rejects, mode, rejected, query, page, cur, result, report, exit>>

\* The run leaves out a listing the database knew already.
LeaveOut(r) ==
    /\ pc[r] = "consider"
    /\ cur[r].already /\ ~mode[r]
    /\ cur' = [cur EXCEPT ![r] = NothingLookedUp]
    /\ pc' = [pc EXCEPT ![r] = "page"]
    /\ UNCHANGED <<seen, rejects, mode, rejected, query, page, result, report, exit>>

ConsiderUnscoredMutant(r) ==
    /\ pc[r] = "consider"
    /\ ~cur[r].already \/ mode[r]
    /\ \E offer \in Offers :
          result' = [result EXCEPT ![r].itemsNew = @ + 1,
                                   ![r].candidates = @ \cup {Candidate(r, offer)}]
    /\ cur' = [cur EXCEPT ![r] = NothingLookedUp]
    /\ pc' = [pc EXCEPT ![r] = "page"]
    /\ UNCHANGED <<seen, rejects, mode, rejected, query, page, report, exit>>

ConsiderKnownMutant(r) ==
    /\ pc[r] = "consider"
    /\ \E offer \in Offers :
          result' = [result EXCEPT ![r].itemsNew = @ + 1,
                                   ![r].candidates =
                                       IF offer.score > 0 THEN @ \cup {Candidate(r, offer)} ELSE @]
    /\ cur' = [cur EXCEPT ![r] = NothingLookedUp]
    /\ pc' = [pc EXCEPT ![r] = "page"]
    /\ UNCHANGED <<seen, rejects, mode, rejected, query, page, report, exit>>

\* The listing is new to the run: it is counted, classified and priced, and becomes
\* a candidate when its score is positive.
Consider(r) ==
    /\ pc[r] = "consider"
    /\ ~cur[r].already \/ mode[r]
    /\ \E offer \in Offers :
          result' = [result EXCEPT ![r].itemsNew = @ + 1,
                                   ![r].candidates =
                                       IF offer.score > 0 THEN @ \cup {Candidate(r, offer)} ELSE @]
    /\ cur' = [cur EXCEPT ![r] = NothingLookedUp]
    /\ pc' = [pc EXCEPT ![r] = "page"]
    /\ UNCHANGED <<seen, rejects, mode, rejected, query, page, report, exit>>

-----------------------------------------------------------------------------
(* The end of a run.                                                       *)

\* The order of the report: tier, then score, then discovery.
Before(a, b) ==
    \/ a.rank < b.rank
    \/ a.rank = b.rank /\ a.score > b.score
    \/ a.rank = b.rank /\ a.score = b.score /\ a.nth < b.nth

\* The listings among a run's candidates.
Found(r) == {c.item : c \in result[r].candidates}

\* candidates[:top] after the sort.
Printed(candidates) ==
    {c \in candidates : Cardinality({d \in candidates : Before(d, c)}) < Top}

ExitStatus(outcome) == IF outcome.errors > 0 /\ outcome.searchesRun = 0 THEN "1" ELSE "0"

FinishUncutMutant(r) ==
    /\ pc[r] = "search"
    /\ query[r] > Len(Plan)
    /\ report' = [report EXCEPT ![r] = Found(r)]
    /\ exit' = [exit EXCEPT ![r] = ExitStatus(result[r])]
    /\ pc' = [pc EXCEPT ![r] = "done"]
    /\ UNCHANGED <<seen, rejects, mode, rejected, query, page, cur, result>>

\* format_report, print, and the exit status of cmd_scan.
Finish(r) ==
    /\ pc[r] = "search"
    /\ query[r] > Len(Plan)
    /\ report' = [report EXCEPT ![r] = {c.item : c \in Printed(result[r].candidates)}]
    /\ exit' = [exit EXCEPT ![r] = ExitStatus(result[r])]
    /\ pc' = [pc EXCEPT ![r] = "done"]
    /\ UNCHANGED <<seen, rejects, mode, rejected, query, page, cur, result>>

\* The run ends without a report, at any point: the process is killed, credentials
\* are missing, the database is locked, or a row or a price raises what scan does not
\* catch.
Abort(r) ==
    /\ Active(r)
    /\ pc' = [pc EXCEPT ![r] = "aborted"]
    /\ exit' = [exit EXCEPT ![r] = "aborted"]
    /\ page' = [page EXCEPT ![r] = {}]
    /\ cur' = [cur EXCEPT ![r] = NothingLookedUp]
    /\ UNCHANGED <<seen, rejects, mode, rejected, query, result, report>>

RunStep(r) ==
    \/ QueryOk(r) \/ QueryFailed(r) \/ PageDone(r)
    \/ LookUp(r) \/ Record(r) \/ LeaveOut(r) \/ Consider(r) \/ Finish(r)

Next ==
    \/ \E i \in Items, reject \in BOOLEAN : SetVerdict(i, reject)
    \/ \E r \in Runs : Begin(r) \/ RunStep(r) \/ Abort(r)

Spec == Init /\ [][Next]_vars

-----------------------------------------------------------------------------
(* Properties.                                                             *)

ScanResult == [apiCalls : Nat, errors : Nat, itemsNew : Nat,
               searchesRun : Nat,
               candidates : SUBSET [item : Items, rank : Nat, score : Nat \ {0}, nth : Nat]]

TypeOK ==
    /\ seen \subseteq Items
    /\ rejects \subseteq Items
    /\ pc \in [Runs -> {"idle", "search", "page", "record", "consider", "done", "aborted"}]
    /\ mode \in [Runs -> BOOLEAN]
    /\ rejected \in [Runs -> SUBSET Items]
    /\ query \in [Runs -> Nat \ {0}]
    /\ page \in [Runs -> SUBSET Items]
    /\ cur \in [Runs -> [item : Listings, already : BOOLEAN]]
    /\ result \in [Runs -> ScanResult]
    /\ report \in [Runs -> SUBSET Items]
    /\ exit \in [Runs -> {"none", "0", "1", "aborted"}]

\* "Only listings never surfaced before appear": a default run takes a listing
\* up as a candidate only if no run, itself included, has it among its
\* candidates or in its report already.
NothingSurfacesTwice ==
    [][\A r \in Runs : ~mode[r] =>
          \A c \in result'[r].candidates \ result[r].candidates :
             \A s \in Runs : c.item \notin Found(s) \cup report[s]]_vars

\* A crash at any point repeats nothing: what a run may report is in the
\* database before it is a candidate, and it stays there.
CandidatesAreRecorded == \A r \in Runs : Found(r) \cup report[r] \subseteq seen

\* Listings rejected when a run begins are in no report of it, although another
\* verdict may replace the rejection meanwhile.
RejectedStayHidden ==
    \A r \in Runs : (Found(r) \cup report[r]) \cap rejected[r] = {}

\* Every query is accounted for: a run that reaches its report has had an answer
\* or an error for each one, and has counted each search once ("one bad anchor
\* must not abort the whole morning's scan").
EveryQueryCounted ==
    \A r \in Runs : pc[r] = "done" =>
        /\ result[r].apiCalls + result[r].errors = Len(Plan)
        /\ result[r].searchesRun = Cardinality({Plan[q] : q \in DOMAIN Plan})

\* One pair for each listing each run has counted as new.
NewlyCounted == UNION {{r} \X (1..result[r].itemsNew) : r \in Runs}

\* Runs that may have recorded a new listing they have not counted: between the two
\* statements, or ended there.
MayOweACount ==
    {r \in Runs : pc[r] = "aborted" \/ (pc[r] = "consider" /\ ~cur[r].already)}

\* The items_new counts of default runs add up to the listings recorded: none is new
\* twice, in a run or in two, and none is recorded without having been new once, but
\* for at most one listing of each run that is cut short between the two.
NewCountsAddUp ==
    (\A r \in Runs : ~mode[r]) =>
        /\ Cardinality(NewlyCounted) <= Cardinality(seen)
        /\ Cardinality(seen) <= Cardinality(NewlyCounted) + Cardinality(MayOweACount)

\* The report "remembers what it has shown you", and --include-seen is said to bring
\* back "listings surfaced on a previous run": what a default run leaves out in its
\* first query, where it cannot have met the listing itself, has been in the report of
\* an earlier run, at least if no run was cut short.
LeftOutWereShown ==
    [][\A r \in Runs :
          LeaveOut(r) /\ query[r] = 1 /\ (\A s \in Runs : pc[s] # "aborted")
              => cur[r].item \in UNION {report[s] : s \in Runs}]_vars

\* "Non-zero only when every search failed": a run none of whose queries was
\* answered does not exit with 0.
TotalFailureIsReported ==
    \A r \in Runs : pc[r] = "done" /\ result[r].errors > 0 /\ result[r].apiCalls = 0
        => exit[r] # "0"

-----------------------------------------------------------------------------
(* The promise of DailyDigest.  The scan of the day is the run that is       *)
(* active.                                                                  *)

Digest == INSTANCE DailyDigest WITH
              considered <- seen,
              shown <- UNION {report[r] : r \in Runs},
              again <- \E r \in Runs : Active(r) /\ mode[r],
              excluded <- UNION {rejected[r] : r \in {s \in Runs : Active(s)}}

\* Successive runs, with their crashes, failed queries and changes of verdict, show a
\* listing a second time only if the run was told to, never one rejected beforehand,
\* and never more than Top.
KeepsDigestPromise == Digest!Spec

=============================================================================

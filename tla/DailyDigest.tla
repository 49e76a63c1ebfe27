------------------------------ MODULE DailyDigest ------------------------------
(***************************************************************************)
(* What the daily report promises its reader, with the scanner, its        *)
(* database and eBay left out: a listing is put in front of the reader at  *)
(* most once, in any number of mornings, unless the reader asks to see     *)
(* again what is known; a listing rejected before a morning's scan is not  *)
(* in its report; and a scan that is cut short may lose finds but repeats  *)
(* nothing.                                                                *)
(***************************************************************************)
EXTENDS FiniteSets, Naturals

CONSTANTS
    Items,  \* the listings of the marketplace
    Top     \* most listings one report shows (--top)

VARIABLES
    considered,  \* listings some scan has looked at
    shown,       \* listings some report has shown
    again,       \* the scan of the day may show listings again
    rejects,     \* listings the reader has rejected
    excluded     \* the rejections the scan of the day goes by, {} between scans

vars == <<considered, shown, again, rejects, excluded>>

Init ==
    /\ considered = {}
    /\ shown = {}
    /\ again = FALSE
    /\ rejects = {}
    /\ excluded = {}

\* The reader changes their mind about a listing, at any time.
Judge ==
    /\ rejects' \in SUBSET Items
    /\ UNCHANGED <<considered, shown, again, excluded>>

BeginScan ==
    /\ again' \in BOOLEAN
    /\ excluded' = rejects
    /\ UNCHANGED <<considered, shown, rejects>>

Consider(i) ==
    /\ i \notin excluded
    /\ considered' = considered \cup {i}
    /\ UNCHANGED <<shown, again, rejects, excluded>>

Publish(report) ==
    /\ report \subseteq considered \ excluded
    /\ again \/ report \cap shown = {}
    /\ Cardinality(report) <= Top
    /\ shown' = shown \cup report
    /\ again' = FALSE
    /\ excluded' = {}
    /\ UNCHANGED <<considered, rejects>>

\* The day ends without a report.
GiveUp ==
    /\ again' = FALSE
    /\ excluded' = {}
    /\ UNCHANGED <<considered, shown, rejects>>

Next ==
    \/ Judge
    \/ BeginScan
    \/ GiveUp
    \/ \E i \in Items : Consider(i)
    \/ \E report \in SUBSET Items : Publish(report)

Spec == Init /\ [][Next]_vars
===============================================================================

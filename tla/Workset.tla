------------------------------- MODULE Workset -------------------------------
(***************************************************************************)
(* workset.py over the trace that RoutingTrace writes: what share of a     *)
(* layer's draws a cache of so many experts would have served, under an    *)
(* LRU policy and with pins chosen from the trace or from its beginning.   *)
(*                                                                         *)
(* Rates are kept as hits per layer; the tool divides them by the draws    *)
(* and averages over the layers.  The held-out trace goes through the same *)
(* functions and is left out.                                              *)
(***************************************************************************)
EXTENDS RoutingTrace, SequencesExt

CONSTANTS
    Budgets,   \* --budgets, slots per layer
    CalOf      \* 1 / CAL_FRAC: one in so many requests is for calibration

ASSUME BudgetAssumption ==
    /\ Budgets \subseteq Nat
    /\ CalOf \in Nat \ {0}

VARIABLE
    summary    \* what the tool has written: empty before, or after it crashed
worksetVars == <<vars, summary>>

Nothing == [kind |-> "none"]
Crashed == [kind |-> "crashed"]

-----------------------------------------------------------------------------

\* parse_trace: the layers that were traced, and the draws of each in order
Traced == {trace[i].layer : i \in DOMAIN trace}

RecordsAt(l) == {i \in DOMAIN trace : trace[i].layer = l}

Stream(l) ==
    LET mine == Ascending(RecordsAt(l))
    IN  [d \in 1..(NUsed * Cardinality(RecordsAt(l))) |->
            trace[mine[((d - 1) \div NUsed) + 1]].exp[((d - 1) % NUsed) + 1]]

FirstLayer == CHOOSE l \in Traced : \A k \in Traced : l <= k

NReq == 1 + Max({trace[i].req : i \in RecordsAt(FirstLayer)})

HitsOf(s, served) == Cardinality({i \in DOMAIN s : s[i] \in served})

\* (mutant: experts are ranked by where they first occur, not by how often)
TopPins_First(s, n) ==
    LET first(e) == CHOOSE i \in DOMAIN s : s[i] = e /\ \A j \in 1..(i - 1) : s[j] # e
    IN  {e \in ToSet(s) : Cardinality({f \in ToSet(s) : first(f) < first(e)}) < n}
\* top_pins: the n most common, those seen first before others as common
TopPins(s, n) ==
    LET count(e) == HitsOf(s, {e})
        first(e) == CHOOSE i \in DOMAIN s : s[i] = e /\ \A j \in 1..(i - 1) : s[j] # e
        ahead(f, e) == count(f) > count(e) \/ (count(f) = count(e) /\ first(f) < first(e))
    IN  {e \in ToSet(s) : Cardinality({f \in ToSet(s) : ahead(f, e)}) < n}

\* One draw of an LRU cache of n experts, the least recently used in front
Draw(c, e, n) ==
    IF \E p \in DOMAIN c.cache : c.cache[p] = e
    THEN LET p == CHOOSE p \in DOMAIN c.cache : c.cache[p] = e
         IN  [cache |-> Append(RemoveAt(c.cache, p), e), hits |-> c.hits + 1]
    ELSE [cache |-> Append(IF Len(c.cache) >= n THEN Tail(c.cache) ELSE c.cache, e), hits |-> c.hits]

LruRun(s, n) ==
    LET run[i \in 0..Len(s)] ==
            IF i = 0 THEN [cache |-> <<>>, hits |-> 0] ELSE Draw(run[i - 1], s[i], n)
    IN  run

\* lru_hit_rate, times the draws: a cache that has room for all is not replayed
LruHits(s, n) ==
    IF n = 0 THEN 0
    ELSE IF n >= Cardinality(ToSet(s)) THEN Len(s)
    ELSE LruRun(s, n)[Len(s)].hits

\* (mutant: one request too many)
CalDraws_OneMore == NUsed * Cardinality({i \in RecordsAt(FirstLayer) : trace[i].req <= NReq \div CalOf})
\* Where a layer's calibration part ends: for every layer what the first one drew in the
\* first requests
CalDraws == NUsed * Cardinality({i \in RecordsAt(FirstLayer) : trace[i].req < NReq \div CalOf})

Simulated ==
    [kind   |-> "done",
     static |-> [n \in Budgets |-> [l \in Traced |-> HitsOf(Stream(l), TopPins(Stream(l), n))]],
     cal    |-> [n \in Budgets |-> [l \in Traced |->
                    LET s == Stream(l) IN
                    HitsOf(SubSeq(s, CalDraws + 1, Len(s)), TopPins(SubSeq(s, 1, CalDraws), n))]],
     lru    |-> [n \in Budgets |-> [l \in Traced |-> LruHits(Stream(l), n)]]]

\* The tool is run on a trace, whole or cut short; it fails on an empty one, and by a division
\* by zero if nothing of a layer is left behind the calibration part.  Here it runs last: neither it
\* nor the others write the trace
Simulate ==
    /\ pc \in {"emitted", "asserted"} /\ summary = Nothing
    /\ summary' = IF Traced = {} \/ \E l \in Traced : Len(Stream(l)) <= CalDraws
                  THEN Crashed ELSE Simulated
    /\ UNCHANGED vars

WorksetInit == Init /\ summary = Nothing
WorksetNext == (Next /\ UNCHANGED summary) \/ Simulate
WorksetSpec == WorksetInit /\ [][WorksetNext]_worksetVars

-----------------------------------------------------------------------------
(* Properties *)

Completed == summary.kind = "done"

\* An LRU cache of n experts serves a draw if fewer than n others were drawn since its expert was
Reused(s, i, n) ==
    \E j \in 1..(i - 1) :
        /\ s[j] = s[i]
        /\ Cardinality({s[k] : k \in (j + 1)..(i - 1)} \ {s[i]}) < n

\* workset.py:9-10: "classic LRU cache" -- its hits are the draws whose reuse distance is below
\* the budget, and from the number of distinct experts on every draw counts as one, first draws
\* included; "in-sample ceiling" -- no choice of as many pins serves more of the trace.
RatesRight ==
    Completed =>
        \A n \in Budgets, l \in Traced :
            LET s == Stream(l)
                reuses == Cardinality({i \in DOMAIN s : Reused(s, i, n)})
                distinct == Cardinality(ToSet(s))
            IN  /\ summary.lru[n][l] = IF n < distinct THEN reuses ELSE reuses + distinct
                /\ \A p \in SUBSET Expert :
                     Cardinality(p) <= n => HitsOf(s, p) <= summary.static[n][l]

\* workset.py:11, "pins from first CAL_FRAC of train requests, evaluated on the rest": in every
\* layer but the last, the calibration part is the draws of the first requests and no others,
\* although the cut was counted in another layer; and a trace of any request is
\* fatal to the tool by nothing but the last layer, which has its one-token requests only.
CalSplitsRequests ==
    /\ Completed =>
         \A l \in Traced \ {NLayer} :
            CalDraws = NUsed * Cardinality({i \in RecordsAt(l) : trace[i].req < NReq \div CalOf})
    /\ summary = Crashed => trace = <<>> \/ Len(Stream(NLayer)) <= CalDraws
=============================================================================

----------------------------- MODULE EventFilters -----------------------------
(***************************************************************************)
(* The filters of a trigger (pkg/eventfilter): what spec.filters become,   *)
(* what they say of an event, and the all and any filters that put their   *)
(* own parts in another order while events are filtered.                   *)
(*                                                                         *)
(* An expression is a record: [dialect, attrs] for exact, prefix and       *)
(* suffix, [dialect, of] with a list of expressions for all, any and not   *)
(* (whose list has one element), [dialect, text] for cesql, and            *)
(* [dialect |-> "none"] for an expression that says nothing.  An event is  *)
(* a function from its attributes to their values, which are sequences.    *)
(***************************************************************************)
EXTENDS Naturals, Sequences, SequencesExt

CONSTANTS
  None,
  FilterSpecs,   \* lists of expressions a trigger may have in spec.filters
  FilterEvents,  \* events to filter
  FilterCalls,   \* goroutines that filter an event
  MaxSwaps       \* bound on the swaps that are started

VARIABLES
  spec,       \* spec.filters of the trigger
  root,       \* the filter made of it; the list in it is reordered
  indexChan,  \* allFilter.indexChan, a channel of one element
  closed,     \* indexChan is closed
  loopDone,   \* optimizeLoop has returned
  swaps,      \* swaps[i]: how many goroutines are to swap filter i with i-1
  swapped,    \* swaps that were started (bound)
  filtering,  \* filtering[c]: the Filter call of goroutine c
  cleanup     \* how far Cleanup is: None, "closing" or "done"

filtersVars ==
  <<spec, root, indexChan, closed, loopDone, swaps, swapped, filtering, cleanup>>

-----------------------------------------------------------------------------
(***************************************************************************)
(* Making filters.                                                         *)
(***************************************************************************)

Lists == {"all", "any"}

\* NewAllFilter and NewAnyFilter: a single filter stands for itself.
NewListFilter(dialect, fs) ==
  IF Len(fs) = 1 THEN fs[1] ELSE [dialect |-> dialect, of |-> fs]

\* NewExactFilter, NewPrefixFilter and NewSuffixFilter want names and values.
NewAttributeFilter(x) ==
  IF \E k \in DOMAIN x.attrs : k = "" \/ x.attrs[k] = <<>> THEN None ELSE x

\* NewCESQLFilter parses the expression.
NewCESQLFilter(x) == IF x.text = "unparsable" THEN None ELSE x

\* MaterializeSubscriptionsAPIFilter, which MaterializeFiltersList calls for
\* each element: what cannot be made is skipped.
RECURSIVE MaterializeSubscriptionsAPIFilter(_)
MaterializeSubscriptionsAPIFilter(x) ==
  LET Made(fs) ==
        SelectSeq([i \in DOMAIN fs |-> MaterializeSubscriptionsAPIFilter(fs[i])],
                  LAMBDA f : f # None)
  IN CASE x.dialect \in {"exact", "prefix", "suffix"} -> NewAttributeFilter(x)
       [] x.dialect \in Lists -> NewListFilter(x.dialect, Made(x.of))
       [] x.dialect = "not" -> [dialect |-> "not", of |-> Made(x.of)]
       [] x.dialect = "cesql" -> NewCESQLFilter(x)
       [] x.dialect = "none" -> None

\* CreateSubscriptionsAPIFilters.
CreateSubscriptionsAPIFilters(fs) ==
  IF fs = <<>> THEN [dialect |-> "nofilter"]
  ELSE MaterializeSubscriptionsAPIFilter([dialect |-> "all", of |-> fs])

-----------------------------------------------------------------------------
(***************************************************************************)
(* Filtering.                                                              *)
(***************************************************************************)

\* LookupAttribute: the attributes that every event has are there, with the
\* empty value if they are not set; an extension may be missing.
Standard == {"type", "source", "subject"}

LookupAttribute(e, k) ==
  IF k \in DOMAIN e THEN e[k] ELSE IF k \in Standard THEN <<>> ELSE None

\* exactFilter.Filter, prefixFilter.Filter and suffixFilter.Filter.
Matches(f, e) ==
  \A k \in DOMAIN f.attrs :
    LET v == LookupAttribute(e, k)
    IN /\ v # None
       /\ CASE f.dialect = "exact" -> v = f.attrs[k]
            [] f.dialect = "prefix" -> IsPrefix(f.attrs[k], v)
            [] f.dialect = "suffix" -> IsSuffix(f.attrs[k], v)

\* cesql.Expression.Evaluate: "ext" reads an extension, which is an error in
\* an event without it.
Evaluate(f, e) == "ext" \in DOMAIN e /\ e["ext"] = <<"a">>

Verdict(b) == IF b THEN "pass" ELSE "fail"

\* The result at which a list filter stops.
Stops(f) == IF f.dialect = "all" THEN "fail" ELSE "pass"

\* Filter of a filter that no goroutine reorders meanwhile.
RECURSIVE Filter(_, _)
Filter(f, e) ==
  CASE f.dialect = "nofilter" -> "nofilter"
    [] f.dialect \in {"exact", "prefix", "suffix"} -> Verdict(Matches(f, e))
    [] f.dialect = "cesql" -> Verdict(Evaluate(f, e))
    [] f.dialect = "not" ->
         IF f.of = <<>> THEN "nofilter"
         ELSE LET r == Filter(f.of[1], e)
              IN CASE r = "fail" -> "pass" [] r = "pass" -> "fail" [] OTHER -> r
    [] f.dialect \in Lists ->
         LET rs == [i \in DOMAIN f.of |-> Filter(f.of[i], e)]
         IN IF \E i \in DOMAIN rs : rs[i] = Stops(f) THEN Stops(f)
            ELSE IF rs = <<>> THEN "nofilter" ELSE Last(rs)

-----------------------------------------------------------------------------
(***************************************************************************)
(* The list filter at the root.  It is filtered with, reordered and        *)
(* cleaned up by different goroutines.                                     *)
(***************************************************************************)

IsList == root.dialect \in Lists
Reading == {c \in FilterCalls : filtering[c].state = "reading"}
Idle == [state |-> "idle"]

FiltersInit ==
  /\ spec \in FilterSpecs
  /\ root = CreateSubscriptionsAPIFilters(spec)
  /\ indexChan = <<>>
  /\ closed = FALSE
  /\ loopDone = FALSE
  /\ swaps = [i \in 2..(IF IsList THEN Len(root.of) ELSE 1) |-> 0]
  /\ swapped = 0
  /\ filtering = [c \in FilterCalls |-> Idle]
  /\ cleanup = None

UnchangedRoot == UNCHANGED <<spec, root, closed, loopDone, swaps, swapped, cleanup>>

\* allFilter.Filter and anyFilter.Filter take the read lock; a goroutine that
\* got the filter from the map may call it after Cleanup.
Filter1(c) ==
  /\ filtering[c].state \in {"idle", "done"}
  /\ \E e \in FilterEvents :
       filtering' = [filtering EXCEPT ![c] =
         IF IsList
         THEN [state |-> "reading", event |-> e, at |-> 1, result |-> "nofilter"]
         ELSE [state |-> "done", event |-> e, at |-> 1, result |-> Filter(root, e)]]
  /\ UNCHANGED indexChan
  /\ UnchangedRoot

\* The next element of the list.  The filter that decides is reported if the
\* channel has room; a send on the closed channel panics.
FilterNext(c) ==
  /\ c \in Reading
  /\ LET call == filtering[c] IN
     IF call.at > Len(root.of)
     THEN /\ filtering' = [filtering EXCEPT ![c].state = "done"]
          /\ UNCHANGED indexChan
     ELSE LET r == Filter(root.of[call.at], call.event) IN
          IF r # Stops(root)
          THEN /\ filtering' = [filtering EXCEPT ![c].at = @ + 1, ![c].result = r]
               /\ UNCHANGED indexChan
          ELSE /\ filtering' = [filtering EXCEPT ![c].result = IF closed THEN "panic" ELSE r,
                                                 ![c].state = "done"]
               /\ indexChan' = IF closed \/ indexChan # <<>> THEN indexChan
                               ELSE <<call.at>>
  /\ UnchangedRoot

\* Mutant: the loop goes on after the channel is closed.
optimizeLoopOn ==
  /\ ~loopDone
  /\ indexChan # <<>>
  /\ indexChan' = <<>>
  /\ \/ UNCHANGED <<swaps, swapped>>
     \/ /\ Head(indexChan) > 1
        /\ swapped < MaxSwaps
        /\ swaps' = [swaps EXCEPT ![Head(indexChan)] = @ + 1]
        /\ swapped' = swapped + 1
  /\ UNCHANGED <<spec, root, closed, loopDone, filtering, cleanup>>

\* optimizeLoop: count the report, and start a goroutine that swaps the filter
\* with the one before when it decided more than twice as often.  The counts
\* are written without the lock while swaps copy them, so the model does not
\* rely on them: the goroutine is started or not.  The loop ends when the
\* channel is closed and empty.
optimizeLoop ==
  /\ ~loopDone
  /\ \/ /\ indexChan # <<>>
        /\ indexChan' = <<>>
        /\ \/ UNCHANGED <<swaps, swapped>>
           \/ /\ Head(indexChan) > 1
              /\ swapped < MaxSwaps
              /\ swaps' = [swaps EXCEPT ![Head(indexChan)] = @ + 1]
              /\ swapped' = swapped + 1
        /\ UNCHANGED loopDone
     \/ /\ indexChan = <<>>
        /\ closed
        /\ loopDone' = TRUE
        /\ UNCHANGED <<indexChan, swaps, swapped>>
  /\ UNCHANGED <<spec, root, closed, filtering, cleanup>>

Swapped(i) ==
  /\ swaps[i] > 0
  /\ swaps' = [swaps EXCEPT ![i] = @ - 1]
  /\ root' = [root EXCEPT !.of[i - 1] = root.of[i], !.of[i] = root.of[i - 1]]
  /\ UNCHANGED <<spec, indexChan, closed, loopDone, swapped, filtering, cleanup>>

\* Mutant: the swap takes no lock.
swapWithEarlierFilterUnlocked(i) == Swapped(i)

\* swapWithEarlierFilter waits until nobody reads.
swapWithEarlierFilter(i) ==
  /\ Reading = {}
  /\ Swapped(i)

\* Cleanup of the root, by FiltersMap.Set or Delete, once: it closes the
\* channel, waits for the loop to end and does the same for each element.
Cleanup ==
  /\ IsList
  /\ \/ /\ cleanup = None
        /\ closed' = TRUE
        /\ cleanup' = "closing"
     \/ /\ cleanup = "closing" /\ loopDone
        /\ cleanup' = "done"
        /\ UNCHANGED closed
  /\ UNCHANGED <<spec, root, indexChan, loopDone, swaps, swapped, filtering>>

FiltersNext ==
  \/ \E c \in FilterCalls : Filter1(c) \/ FilterNext(c)
  \/ optimizeLoop
  \/ \E i \in DOMAIN swaps : swapWithEarlierFilter(i)
  \/ Cleanup

\* Goroutines that can go on do.
FiltersProgress == optimizeLoop \/ (cleanup # None /\ Cleanup)

FiltersSpec == FiltersInit /\ [][FiltersNext]_filtersVars /\ WF_filtersVars(FiltersProgress)

-----------------------------------------------------------------------------
(***************************************************************************)
(* What the filters promise.                                               *)
(***************************************************************************)

\* What an expression means, written without order, counts or three values.
RECURSIVE Means(_, _)
Means(x, e) ==
  LET Has(k) == k \in DOMAIN e \/ k \in Standard
      Value(k) == IF k \in DOMAIN e THEN e[k] ELSE <<>>
  IN CASE x.dialect = "exact" -> \A k \in DOMAIN x.attrs : Has(k) /\ Value(k) = x.attrs[k]
       [] x.dialect = "prefix" ->
            \A k \in DOMAIN x.attrs : Has(k) /\ \E s \in Suffixes(Value(k)) : x.attrs[k] \o s = Value(k)
       [] x.dialect = "suffix" ->
            \A k \in DOMAIN x.attrs : Has(k) /\ \E s \in Prefixes(Value(k)) : s \o x.attrs[k] = Value(k)
       [] x.dialect = "cesql" -> Evaluate(x, e)
       [] x.dialect = "all" -> \A i \in DOMAIN x.of : Means(x.of[i], e)
       [] x.dialect = "any" -> \E i \in DOMAIN x.of : Means(x.of[i], e)
       [] x.dialect = "not" -> ~Means(x.of[1], e)

\* The expressions that say something, all the way down.
RECURSIVE Says(_)
Says(x) ==
  CASE x.dialect \in {"exact", "prefix", "suffix"} -> NewAttributeFilter(x) # None
    [] x.dialect \in Lists \cup {"not"} ->
         x.of # <<>> /\ \A i \in DOMAIN x.of : Says(x.of[i])
    [] x.dialect = "cesql" -> x.text # "unparsable"
    [] x.dialect = "none" -> FALSE

\* Filters are applied as they were written: whatever other goroutines filter,
\* report and reorder meanwhile, a call that does not panic lets the event
\* pass exactly if every expression of spec.filters holds of it (allFilter,
\* anyFilter, notFilter and the attribute filters; a panic comes from a filter
\* that was cleaned up before it was used).
FilteredAsWritten ==
  \A c \in FilterCalls :
    LET call == filtering[c] IN
    call.state = "done" /\ call.result # "panic" /\ (\A i \in DOMAIN spec : Says(spec[i]))
      => (call.result # "fail" <=> \A i \in DOMAIN spec : Means(spec[i], call.event))

===============================================================================

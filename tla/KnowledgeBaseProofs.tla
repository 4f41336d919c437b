-------------------------- MODULE KnowledgeBaseProofs --------------------------
(***************************************************************************)
(* Theorems about the knowledge base of a project, for any number of calls *)
(* in flight, sources, lines and searches, with and without failed writes  *)
(* and restarts: a document that passes its audit has one credible record  *)
(* per claim, whatever overlaps; and, while calls do not overlap, a source *)
(* is known and found once, what is found can be rebuilt from the exports, *)
(* and no insert creates the store's table over another source.            *)
(*                                                                         *)
(* The last three need to know what a call between two waits relies on:    *)
(* that the row it has appended is still the only trace of its source, and *)
(* that the store object it holds has seen the table if there is one.      *)
(***************************************************************************)
EXTENDS KnowledgeBase, FiniteSetTheorems, WellFoundedInduction, TLAPS

Steps == {"idle", "fetch", "embed", "open", "create", "add", "query", "search",
          "web", "audit", "delete", "unlist"}

\* Where a call holds a store object.
Holding == {"create", "add", "search", "delete"}

CallStates == [task : {"none", "ingest", "document", "delete"}, step : Steps,
               then : {"idle", "insert", "search", "delete"},
               url : Urls \cup {"none"}, store : 0 .. Cardinality(Calls) + 1,
               lines : SUBSET (1 .. MaxLine), tried : BOOLEAN, kept : SUBSET Urls,
               searches : Nat, seen : SUBSET Urls]

\* On its way into the store, on its way out of it, and at its document.
Inserting(k) == k.step \in {"embed", "create", "add"} \/ (k.step = "open" /\ k.then = "insert")
Deleting(k) == k.step \in {"delete", "unlist"} \/ (k.step = "open" /\ k.then = "delete")
Citing(k) == k.step \in {"query", "search", "web"} \/ (k.step = "open" /\ k.then = "search")

WellFormed(k) ==
  /\ k \in CallStates
  /\ k.step = "open" => k.then # "idle"
  /\ k.step \notin Holding => k.store = 0
  /\ k.step = "fetch" => k.task = "ingest"
  /\ Inserting(k) => k.task \in {"ingest", "document"}
  /\ Deleting(k) <=> k.task = "delete"
  /\ Citing(k) \/ k.step = "audit" => k.task = "document"
  /\ k.step = "fetch" \/ Inserting(k) \/ Deleting(k) => k.url \in Urls
  /\ k.task = "document" /\ k.step # "audit" => k.lines # {}

Records == [line : 1 .. MaxLine, support : SUBSET Urls]

KnowledgeTypeOK ==
  /\ rows \in [Urls -> Nat] /\ index \in [Urls -> Nat] /\ export \in [Urls -> Nat]
  /\ table \in BOOLEAN /\ overlapped \in BOOLEAN /\ failed \in BOOLEAN
  /\ store \in 0 .. Cardinality(Calls) + 1
  /\ handle \in [Stores -> BOOLEAN]
  /\ citations \subseteq Records
  /\ document \subseteq 1 .. MaxLine
  /\ calls \in [Calls -> CallStates]
  /\ \A c \in Calls : WellFormed(calls[c])

\* One call cites the document, each line once, and only with support.
CitedOnce ==
  /\ document = {} => citations = {} /\ \A c \in Calls : calls[c].task # "document"
  /\ \A c, d \in Calls : calls[c].task = "document" /\ calls[d].task = "document" => c = d
  /\ \A c \in Calls : calls[c].task = "document" =>
       \A r \in citations : r.line \notin calls[c].lines
  /\ \A r \in citations : r.support # {}
  /\ \A q, r \in citations : q.line = r.line => q = r

OneCall == \A c, d \in Calls : calls[c] # Idle /\ calls[d] # Idle => c = d

\* What the three places of a source say of it, and what the store objects
\* know of the table.
Coherent ==
  /\ \A u \in Urls : rows[u] <= 1
  /\ ~table => \A u \in Urls : index[u] = 0
  /\ store # 0 => handle[store] = table
  /\ ~failed => \A u \in Urls :
       /\ index[u] <= 1
       /\ index[u] > 0 => export[u] > 0 /\ rows[u] > 0
  /\ ~failed => \A r \in citations : \A u \in r.support : export[u] > 0 /\ rows[u] > 0

\* What a call relies on between two waits.
Relies(k) ==
  /\ k.step \in Holding => k.store = store /\ store # 0
  /\ k.step = "create" => ~table
  /\ k.step = "fetch" => rows[k.url] = 0
  /\ Inserting(k) => rows[k.url] > 0 /\ (~failed => index[k.url] = 0)
  /\ k.task = "document" => \A u \in k.kept : index[u] > 0 /\ rows[u] > 0
  /\ k.task = "delete" => k.kept \subseteq {k.url}
  /\ k.task = "delete" /\ ~failed => (k.kept = {} => export[k.url] = 0)
  /\ k.step = "unlist" /\ ~failed => index[k.url] = 0

Alone == ~overlapped => OneCall /\ Coherent /\ \A c \in Calls : Relies(calls[c])

KnowledgeInv == KnowledgeTypeOK /\ CitedOnce /\ Alone

-----------------------------------------------------------------------------
(* Operators of the model *)

LEMMA Bounds == MaxLine \in Nat /\ Cardinality(Calls) \in Nat /\ IsFiniteSet(Calls)
                /\ Credible \subseteq Urls
BY KnowledgeAssumption, FS_CardinalityType

\* The first line still to be cited is one of them.
LEMMA CurrentIsLine ==
  ASSUME NEW call, call.lines \subseteq 1 .. MaxLine, call.lines # {}
  PROVE  Current(call) \in call.lines
<1> DEFINE T == call.lines
<1>1. T \subseteq Nat /\ T # {}
  BY Bounds
<1>2. PICK l \in T : \A m \in T : ~(<<m, l>> \in OpToRel(<, Nat))
  BY <1>1, NatLessThanWellFounded, WFMin
<1>3. \A m \in T : ~(m < l)
  BY <1>1, <1>2 DEF OpToRel
<1>4. \A m \in T : l <= m
  BY <1>1, <1>3
<1> QED
  BY <1>4 DEF Current

\* A call that opens the store has a store object of its own: there are more
\* of them than calls that hold one.
LEMMA FreshIsStore ==
  ASSUME KnowledgeTypeOK, NEW c \in Calls, calls[c].step = "open"
  PROVE  /\ FreshStore \in Stores /\ FreshStore # store
         /\ FreshStore \in 1 .. Cardinality(Calls) + 1
<1> DEFINE n == Cardinality(Calls)
           others == Calls \ {c}
           f == [d \in others |-> calls[d].store]
           T == {calls[d].store : d \in others}
           used == {store} \cup {calls[d].store : d \in Calls}
<1>1. IsFiniteSet(others) /\ Cardinality(others) = n - 1 /\ n \in Nat
  BY Bounds, FS_RemoveElement
<1>2. f \in Surjection(others, T)
  BY DEF Surjection
<1>3. IsFiniteSet(T) /\ Cardinality(T) <= n - 1
  BY <1>1, <1>2, FS_Surjection
<1>3a. Cardinality(T) \in Nat
  BY <1>3, FS_CardinalityType
<1> HIDE DEF T, others, f, n
<1>3b. /\ IsFiniteSet(T \cup {store})
       /\ Cardinality(T \cup {store}) = Cardinality(T) \/ Cardinality(T \cup {store}) = Cardinality(T) + 1
  BY <1>3, FS_AddElement
<1>4. Cardinality(T \cup {store}) \in Nat /\ Cardinality(T \cup {store}) <= n
  BY <1>1, <1>3, <1>3a, <1>3b
<1>5. IsFiniteSet(1 .. n + 1) /\ Cardinality(1 .. n + 1) = n + 1
  BY <1>1, FS_Interval
<1>6. ~(1 .. n + 1 \subseteq T \cup {store})
  <2> SUFFICES ASSUME 1 .. n + 1 \subseteq T \cup {store} PROVE FALSE
    OBVIOUS
  <2>1. Cardinality(1 .. n + 1) <= Cardinality(T \cup {store})
    BY <1>3b, FS_Subset
  <2> QED
    BY <1>1, <1>4, <1>5, <2>1
<1> USE DEF n, T, others
<1>7. PICK s \in 1 .. n + 1 : s \notin T \cup {store}
  BY <1>6
<1>8. calls[c].store = 0 /\ s # 0
  BY <1>1 DEF KnowledgeTypeOK, WellFormed, Holding
<1>9. s \notin used
  BY <1>7, <1>8
<1> QED
  BY <1>7, <1>9 DEF FreshStore, Stores

\* The record GoTo leaves.
After(call, step) ==
  [call EXCEPT !.step  = step,
               !.then  = IF step = "open" THEN @ ELSE "idle",
               !.store = IF step \in Holding THEN @ ELSE 0,
               !.url   = IF step \in {"query", "audit"} THEN "none" ELSE @]

LEMMA AfterFields ==
  ASSUME NEW call \in CallStates, NEW step \in Steps
  PROVE  /\ After(call, step) \in CallStates
         /\ After(call, step).step = step
         /\ After(call, step).then = IF step = "open" THEN call.then ELSE "idle"
         /\ After(call, step).store = IF step \in Holding THEN call.store ELSE 0
         /\ After(call, step).url = IF step \in {"query", "audit"} THEN "none" ELSE call.url
         /\ After(call, step).task = call.task
         /\ After(call, step).lines = call.lines
         /\ After(call, step).kept = call.kept
<1>1. 0 \in 0 .. Cardinality(Calls) + 1
  BY Bounds
<1> QED
  BY <1>1 DEF After, CallStates, Holding

LEMMA GoToAfter ==
  ASSUME NEW c, NEW call, NEW step, GoTo(c, call, step)
  PROVE  calls' = [calls EXCEPT ![c] = After(call, step)]
BY DEF GoTo, After, Holding

LEMMA IdleWellFormed == WellFormed(Idle) /\ Idle \in CallStates
<1>1. 0 \in 0 .. Cardinality(Calls) + 1
  BY Bounds
<1>2. Idle \in CallStates
  BY <1>1 DEF Idle, CallStates, Steps
<1> QED
  BY <1>2 DEF Idle, WellFormed, Inserting, Deleting, Citing, Holding

LEMMA TurnTyped ==
  ASSUME KnowledgeTypeOK, NEW c \in Calls, NEW k, WellFormed(k),
         calls' = [calls EXCEPT ![c] = k]
  PROVE  /\ calls' \in [Calls -> CallStates]
         /\ \A d \in Calls : calls'[d] = IF d = c THEN k ELSE calls[d]
         /\ \A d \in Calls : WellFormed(calls'[d])
<1>1. k \in CallStates
  BY DEF WellFormed
<1>2. \A d \in Calls : calls'[d] = IF d = c THEN k ELSE calls[d]
  BY DEF KnowledgeTypeOK
<1>3. \A d \in Calls : WellFormed(calls[d])
  BY DEF KnowledgeTypeOK
<1>4. \A d \in Calls : WellFormed(calls'[d])
  BY <1>2, <1>3
<1> QED
  BY <1>1, <1>2, <1>4 DEF KnowledgeTypeOK

\* A turn keeps the document's lines and its records apart: a call cites a
\* line by taking it from its lines, and nobody else has the document.
LEMMA CitedTurn ==
  ASSUME KnowledgeTypeOK, CitedOnce, NEW c \in Calls, NEW k, WellFormed(k),
         calls' = [calls EXCEPT ![c] = k], document' = document,
         k.task = "document" => calls[c].task = "document" /\ k.lines \subseteq calls[c].lines,
         \/ citations' \subseteq citations
         \/ /\ calls[c].task = "document"
            /\ \E r \in Records : /\ citations' = citations \cup {r}
                                  /\ r.line \in calls[c].lines /\ r.support # {}
                                  /\ k.task = "document" => r.line \notin k.lines
  PROVE  CitedOnce'
<1>1. \A d \in Calls : calls'[d] = IF d = c THEN k ELSE calls[d]
  BY TurnTyped
<1>2. \A d \in Calls : calls'[d].task = "document" =>
        calls[d].task = "document" /\ calls'[d].lines \subseteq calls[d].lines
  BY <1>1
<1>3. CASE citations' \subseteq citations
  BY <1>2, <1>3 DEF CitedOnce
<1>4. CASE ~(citations' \subseteq citations)
  <2>1. PICK r \in Records : /\ citations' = citations \cup {r}
                             /\ r.line \in calls[c].lines /\ r.support # {}
                             /\ k.task = "document" => r.line \notin k.lines
    BY <1>4
  <2>2. calls[c].task = "document" /\ document # {}
    BY <1>4 DEF CitedOnce
  <2>3. \A q \in citations : q.line # r.line
    BY <2>1, <2>2 DEF CitedOnce
  <2>4. ASSUME NEW d \in Calls, calls'[d].task = "document", NEW q \in citations'
        PROVE  q.line \notin calls'[d].lines
    <3>1. d = c
      BY <1>2, <2>2, <2>4 DEF CitedOnce
    <3> QED
      BY <1>1, <1>2, <2>1, <2>4, <3>1 DEF CitedOnce
  <2>5. \A p, q \in citations' : p.line = q.line => p = q
    BY <2>1, <2>3 DEF CitedOnce
  <2>6. \A q \in citations' : q.support # {}
    BY <2>1 DEF CitedOnce
  <2>7. \A d, e \in Calls : calls'[d].task = "document" /\ calls'[e].task = "document" => d = e
    BY <1>2 DEF CitedOnce
  <2> QED
    BY <2>2, <2>4, <2>5, <2>6, <2>7 DEF CitedOnce
<1> QED
  BY <1>3, <1>4

\* A call's turn, as long as no call has met another.
LEMMA AloneTurn ==
  ASSUME KnowledgeTypeOK, Alone, NEW c \in Calls, NEW k, WellFormed(k),
         calls' = [calls EXCEPT ![c] = k],
         (calls[c] # Idle /\ overlapped' = overlapped) \/ Start,
         ~overlapped' /\ Coherent /\ Relies(calls[c]) => Coherent' /\ Relies(k)'
  PROVE  Alone'
<1> SUFFICES ASSUME ~overlapped' PROVE OneCall' /\ Coherent' /\ \A d \in Calls : Relies(calls[d])'
  BY DEF Alone
<1>1. ~overlapped
  BY DEF Start
<1>2. OneCall /\ Coherent /\ Relies(calls[c])
  BY <1>1 DEF Alone
<1>3. \A d \in Calls : d # c => calls[d] = Idle
  BY <1>2 DEF OneCall, Start
<1>4. \A d \in Calls : calls'[d] = IF d = c THEN k ELSE Idle
  BY <1>3, TurnTyped
<1>5. Relies(Idle)'
  BY DEF Relies, Idle, Inserting, Holding
<1>6. \A d \in Calls : Relies(calls[d])'
  <2> TAKE d \in Calls
  <2>1. CASE d = c
    BY <1>2, <1>4, <2>1
  <2>2. CASE d # c
    BY <1>5, <1>4, <2>2
  <2> QED
    BY <2>1, <2>2
<1>7. OneCall'
  BY <1>4 DEF OneCall
<1> QED
  BY <1>2, <1>6, <1>7

\* Once the store is opened, a call inserts, searches or deletes.
Operated(k, opened, then) ==
  k.step = IF then # "insert" THEN then ELSE IF opened THEN "add" ELSE "create"

LEMMA ConnectMove ==
  ASSUME KnowledgeTypeOK, NEW c \in Calls, NEW call \in CallStates,
         NEW then \in {"insert", "search", "delete"}, Connect(c, call, then)
  PROVE  \E k \in CallStates :
           /\ calls' = [calls EXCEPT ![c] = k]
           /\ k.task = call.task /\ k.lines = call.lines /\ k.kept = call.kept /\ k.url = call.url
           /\ \/ k.step = "open" /\ k.then = then /\ k.store = 0
              \/ store # 0 /\ k.store = store /\ Operated(k, handle[store], then)
<1>1. CASE store = 0
  <2> DEFINE o == [call EXCEPT !.then = then]
  <2>1. o \in CallStates /\ o.then = then /\ o.task = call.task /\ o.lines = call.lines
        /\ o.kept = call.kept /\ o.url = call.url
    BY DEF CallStates
  <2>2. calls' = [calls EXCEPT ![c] = After(o, "open")]
    BY <1>1, GoToAfter DEF Connect
  <2> HIDE DEF o
  <2>3. "open" \in Steps /\ "open" \notin Holding
    BY DEF Steps, Holding
  <2> DEFINE k == After(o, "open")
  <2>4. /\ k \in CallStates /\ k.task = call.task /\ k.lines = call.lines /\ k.kept = call.kept
        /\ k.url = call.url /\ k.step = "open" /\ k.then = then /\ k.store = 0
    BY <2>1, <2>3, AfterFields
  <2> HIDE DEF k
  <2>5. calls' = [calls EXCEPT ![c] = k]
    BY <2>2 DEF k
  <2> QED
    BY <2>4, <2>5
<1>2. CASE store # 0
  <2> DEFINE o == [call EXCEPT !.store = store]
             s == StepWith(handle[store], then)
  <2>1. o \in CallStates /\ o.store = store /\ o.task = call.task /\ o.lines = call.lines
        /\ o.kept = call.kept /\ o.url = call.url
    BY DEF CallStates, KnowledgeTypeOK
  <2>2. calls' = [calls EXCEPT ![c] = After(o, s)]
    BY <1>2, GoToAfter DEF Connect
  <2>3. s \in Steps /\ s \in Holding /\ s \notin {"query", "audit", "open"}
    BY DEF Steps, Holding, StepWith
  <2>4. \A k : k.step = s => Operated(k, handle[store], then)
    BY DEF Operated, StepWith
  <2> HIDE DEF o, s
  <2> DEFINE k == After(o, s)
  <2>5. /\ k \in CallStates /\ k.task = call.task /\ k.lines = call.lines /\ k.kept = call.kept
        /\ k.url = call.url /\ k.step = s /\ k.store = store
    BY <2>1, <2>3, AfterFields
  <2> HIDE DEF k
  <2>6. calls' = [calls EXCEPT ![c] = k]
    BY <2>2 DEF k
  <2> QED
    BY <1>2, <2>4, <2>5, <2>6
<1> QED
  BY <1>1, <1>2

\* A claim is cited, or not, and the call goes on without anything kept.
MovedOn(c, k, lines) ==
  /\ calls' = [calls EXCEPT ![c] = k]
  /\ WellFormed(k) /\ k.task = "document" /\ k.kept = {}
  /\ k.step \in {"query", "audit", "web"}
  /\ k.lines \subseteq lines

Recorded(k, call, found) ==
  \/ citations' = citations
  \/ /\ citations' = citations \cup {[line |-> Current(call), support |-> found \cap Credible]}
     /\ found \cap Credible # {}
     /\ Current(call) \in call.lines /\ Current(call) \notin k.lines

LEMMA NextClaimMove ==
  ASSUME NEW c \in Calls, NEW call \in CallStates, call.task = "document", call.lines # {},
         NextClaim(c, call)
  PROVE  \E k : MovedOn(c, k, call.lines) /\ Current(call) \notin k.lines
<1> DEFINE rest == call.lines \ {Current(call)}
           o == [call EXCEPT !.lines = rest, !.tried = FALSE, !.kept = {}]
           s == IF rest = {} THEN "audit" ELSE "query"
<1>1. o \in CallStates /\ o.lines = rest /\ o.task = "document" /\ o.kept = {}
  BY DEF CallStates
<1>2. calls' = [calls EXCEPT ![c] = After(o, s)]
  BY GoToAfter DEF NextClaim
<1>3. s \in Steps /\ s \notin Holding /\ s # "open" /\ s \in {"query", "audit"}
      /\ (s # "audit" => rest # {})
  BY DEF Steps, Holding
<1>4. rest \subseteq call.lines /\ Current(call) \notin rest
  OBVIOUS
<1> HIDE DEF o, s, rest
<1> DEFINE k == After(o, s)
<1>5. /\ k \in CallStates /\ k.step = s /\ k.then = "idle" /\ k.store = 0
      /\ k.task = "document" /\ k.lines = rest /\ k.kept = {}
  BY <1>1, <1>3, AfterFields
<1> HIDE DEF k
<1>6. WellFormed(k)
  BY <1>3, <1>5 DEF WellFormed, Inserting, Deleting, Citing, Holding
<1>7. calls' = [calls EXCEPT ![c] = k]
  BY <1>2 DEF k
<1> QED
  BY <1>3, <1>4, <1>5, <1>6, <1>7 DEF MovedOn

LEMMA QueryMove ==
  ASSUME NEW c \in Calls, NEW call \in CallStates, call.task = "document", call.lines # {},
         NEW s \in {"query", "web"}, GoTo(c, call, s)
  PROVE  \E k : /\ WellFormed(k) /\ calls' = [calls EXCEPT ![c] = k]
                /\ k.task = "document" /\ k.step = s
                /\ k.kept = call.kept /\ k.lines = call.lines
<1> DEFINE k == After(call, s)
<1>1. s \in Steps /\ s \notin Holding /\ s # "open"
  BY DEF Steps, Holding
<1>2. /\ k \in CallStates /\ k.step = s /\ k.then = "idle" /\ k.store = 0
      /\ k.task = "document" /\ k.lines = call.lines /\ k.kept = call.kept
  BY <1>1, AfterFields
<1>3. calls' = [calls EXCEPT ![c] = k]
  BY GoToAfter
<1> HIDE DEF k
<1>4. WellFormed(k)
  BY <1>2 DEF WellFormed, Inserting, Deleting, Citing, Holding
<1> QED
  BY <1>2, <1>3, <1>4

LEMMA CiteMove ==
  ASSUME NEW c \in Calls, NEW call \in CallStates, call.task = "document", call.lines # {},
         NEW found \in SUBSET Urls, Cite(c, call, found)
  PROVE  \E k : MovedOn(c, k, call.lines) /\ Recorded(k, call, found)
<1>0. Current(call) \in call.lines
  BY CurrentIsLine DEF CallStates
<1>1. CASE /\ citations' = IF Citable(found) THEN citations \cup {Record(call, found)}
                                             ELSE citations
           /\ NextClaim(c, call)
  <2>1. PICK k : MovedOn(c, k, call.lines) /\ Current(call) \notin k.lines
    BY <1>1, NextClaimMove
  <2>2. Recorded(k, call, found)
    BY <1>0, <1>1, <2>1 DEF Recorded, Citable, Record
  <2> QED
    BY <2>1, <2>2
<1>2. CASE citations' = citations /\ NextClaim(c, call)
  <2>1. PICK k : MovedOn(c, k, call.lines) /\ Current(call) \notin k.lines
    BY <1>2, NextClaimMove
  <2> QED
    BY <1>2, <2>1 DEF Recorded
<1>3. CASE citations' = citations /\ GoTo(c, Discovering(call, {}), "web")
  <2> DEFINE o == Discovering(call, {})
  <2>0. call.searches + 1 \in Nat
    BY DEF CallStates
  <2>1. o \in CallStates /\ o.task = "document" /\ o.lines = call.lines /\ o.kept = {}
    BY <2>0 DEF Discovering, CallStates
  <2> HIDE DEF o
  <2>2. PICK k : /\ WellFormed(k) /\ calls' = [calls EXCEPT ![c] = k]
                 /\ k.task = "document" /\ k.step = "web" /\ k.kept = {} /\ k.lines = call.lines
    BY <1>3, <2>1, QueryMove DEF o
  <2> QED
    BY <1>3, <2>2 DEF MovedOn, Recorded
<1> QED
  BY <1>1, <1>2, <1>3 DEF Cite

LEMMA UnliftedMove ==
  ASSUME NEW c \in Calls, NEW call \in CallStates, call.task = "document", call.lines # {},
         Unlifted(c, call)
  PROVE  \E k : MovedOn(c, k, call.lines) /\ Recorded(k, call, call.kept)
<1>1. CASE call.kept = {}
  <2>1. PICK k : /\ WellFormed(k) /\ calls' = [calls EXCEPT ![c] = k]
                 /\ k.task = "document" /\ k.step = "query"
                 /\ k.kept = call.kept /\ k.lines = call.lines
    BY <1>1, QueryMove DEF Unlifted
  <2> QED
    BY <1>1, <2>1 DEF MovedOn, Recorded, Unlifted
<1>2. CASE call.kept # {}
  BY <1>2, CiteMove DEF Unlifted, CallStates
<1> QED
  BY <1>1, <1>2

-----------------------------------------------------------------------------
(* One call's turn keeps the invariant *)

StateTyped ==
  /\ rows \in [Urls -> Nat] /\ index \in [Urls -> Nat] /\ export \in [Urls -> Nat]
  /\ table \in BOOLEAN /\ failed \in BOOLEAN
  /\ store \in 0 .. Cardinality(Calls) + 1 /\ handle \in [Stores -> BOOLEAN]

LEMMA InvFacts ==
  ASSUME KnowledgeInv, NEW c \in Calls
  PROVE  KnowledgeTypeOK /\ CitedOnce /\ Alone /\ StateTyped /\ WellFormed(calls[c])
         /\ calls[c] \in CallStates /\ citations \subseteq Records
BY DEF KnowledgeInv, KnowledgeTypeOK, StateTyped, WellFormed

LEMMA TurnKeeps ==
  ASSUME KnowledgeInv, NEW c \in Calls, NEW k, WellFormed(k),
         calls' = [calls EXCEPT ![c] = k], document' = document, StateTyped',
         (calls[c] # Idle /\ overlapped' = overlapped) \/ Start,
         k.task = "document" => calls[c].task = "document" /\ k.lines \subseteq calls[c].lines,
         \/ citations' \subseteq citations
         \/ /\ calls[c].task = "document"
            /\ \E r \in Records : /\ citations' = citations \cup {r}
                                  /\ r.line \in calls[c].lines /\ r.support # {}
                                  /\ k.task = "document" => r.line \notin k.lines,
         ~overlapped' /\ Coherent /\ Relies(calls[c]) => Coherent' /\ Relies(k)'
  PROVE  KnowledgeInv'
<1>1. KnowledgeTypeOK /\ CitedOnce /\ Alone
  BY DEF KnowledgeInv
<1>2. CitedOnce'
  BY <1>1, CitedTurn
<1>3. Alone'
  BY <1>1, AloneTurn
<1>4. overlapped' \in BOOLEAN
  BY <1>1 DEF Start, KnowledgeTypeOK
<1>5. citations' \subseteq Records /\ document' \subseteq 1 .. MaxLine
  BY <1>1 DEF KnowledgeTypeOK
<1>6. calls' \in [Calls -> CallStates] /\ \A d \in Calls : WellFormed(calls'[d])
  BY <1>1, TurnTyped
<1>7. KnowledgeTypeOK'
  BY <1>4, <1>5, <1>6 DEF KnowledgeTypeOK, StateTyped
<1> QED
  BY <1>2, <1>3, <1>7 DEF KnowledgeInv

LEMMA ReplyKeeps ==
  ASSUME KnowledgeInv, NEW c \in Calls, Reply(c), calls[c] # Idle,
         overlapped' = overlapped, document' = document, StateTyped',
         citations' \subseteq citations,
         ~overlapped /\ Coherent /\ Relies(calls[c]) => Coherent'
  PROVE  KnowledgeInv'
<1>1. PICK k : k = Idle
  OBVIOUS
<1>2. WellFormed(k) /\ k.task # "document"
  BY <1>1, IdleWellFormed DEF Idle
<1>3. Relies(k)'
  BY <1>1 DEF Relies, Idle, Inserting, Holding
<1>4. calls' = [calls EXCEPT ![c] = k]
  BY <1>1 DEF Reply
<1> QED
  BY <1>2, <1>3, <1>4, TurnKeeps

LEMMA CitingKeeps ==
  ASSUME KnowledgeInv, NEW c \in Calls, calls[c] # Idle, calls[c].task = "document",
         NEW call \in CallStates, call.lines = calls[c].lines, NEW found \in SUBSET Urls,
         NEW k, MovedOn(c, k, call.lines), Recorded(k, call, found),
         ~overlapped /\ Coherent /\ Relies(calls[c]) =>
           \A u \in found : index[u] > 0 /\ rows[u] > 0,
         UNCHANGED <<rows, index, export, table, connection, document, overlapped, failed>>
  PROVE  KnowledgeInv'
<1>1. StateTyped'
  BY InvFacts DEF StateTyped, connection
<1>2. WellFormed(k) /\ calls' = [calls EXCEPT ![c] = k] /\ k.lines \subseteq calls[c].lines
  BY DEF MovedOn
<1> DEFINE new == [line |-> Current(call), support |-> found \cap Credible]
<1>3. \/ citations' \subseteq citations
      \/ \E r \in Records : /\ citations' = citations \cup {r}
                            /\ r.line \in calls[c].lines /\ r.support # {}
                            /\ k.task = "document" => r.line \notin k.lines
  <2>1. CASE citations' = citations
    BY <2>1
  <2>2. CASE citations' # citations
    <3>1. Current(call) \in 1 .. MaxLine /\ new \in Records
      BY <2>2 DEF Recorded, CallStates, Records
    <3>2. /\ citations' = citations \cup {new}
          /\ new.line \in calls[c].lines /\ new.support # {} /\ new.line \notin k.lines
      BY <2>2 DEF Recorded
    <3> QED
      BY <3>1, <3>2
  <2> QED
    BY <2>1, <2>2
<1>4. ASSUME ~overlapped, Coherent, Relies(calls[c])
      PROVE  Coherent'
  <2>1. ASSUME ~failed, NEW r \in citations', NEW u \in r.support
        PROVE  export[u] > 0 /\ rows[u] > 0
    <3>1. CASE r \in citations
      BY <1>4, <2>1, <3>1 DEF Coherent
    <3>2. CASE r \notin citations
      <4>1. r = new /\ u \in found /\ u \in Urls
        BY <2>1, <3>2 DEF Recorded
      <4> QED
        BY <1>4, <2>1, <4>1 DEF Coherent
    <3> QED
      BY <3>1, <3>2
  <2> QED
    BY <1>4, <2>1 DEF Coherent, connection
<1>5. Relies(k)'
  BY DEF MovedOn, Relies, Inserting, Holding
<1> QED
  BY <1>1, <1>2, <1>3, <1>4, <1>5, TurnKeeps

LEMMA BeginIngestKeeps ==
  ASSUME KnowledgeInv, NEW c \in Calls, NEW u \in Urls, BeginIngest(c, u)
  PROVE  KnowledgeInv'
<1> DEFINE o == [Idle EXCEPT !.task = "ingest", !.url = u]
<1>1. o \in CallStates /\ o.task = "ingest" /\ o.url = u
  BY IdleWellFormed DEF Idle, CallStates
<1>2. PICK k : k = After(o, "fetch")
  OBVIOUS
<1>3. "fetch" \in Steps /\ "fetch" \notin Holding
  BY DEF Steps, Holding
<1>4. calls' = [calls EXCEPT ![c] = k]
  BY <1>2, GoToAfter DEF BeginIngest
<1> HIDE DEF o
<1>5. k \in CallStates /\ k.step = "fetch" /\ k.store = 0 /\ k.task = "ingest" /\ k.url = u
  BY <1>1, <1>2, <1>3, AfterFields
<1>6. WellFormed(k)
  BY <1>5 DEF WellFormed, Inserting, Deleting, Citing, Holding
<1>7. UNCHANGED <<rows, index, export, table, citations, store, handle, document, failed>> /\ Start
      /\ rows[u] = 0
  BY InvFacts DEF BeginIngest, kb, connection, Known, StateTyped
<1>8. StateTyped'
  BY <1>7, InvFacts DEF StateTyped
<1>9. Relies(k)'
  BY <1>5, <1>7 DEF Relies, Inserting, Holding
<1>10. Coherent => Coherent'
  BY <1>7 DEF Coherent
<1> QED
  BY <1>4, <1>5, <1>6, <1>7, <1>8, <1>9, <1>10, TurnKeeps

LEMMA EndFetchKeeps ==
  ASSUME KnowledgeInv, NEW c \in Calls, EndFetch(c)
  PROVE  KnowledgeInv'
<1>1. /\ calls[c].step = "fetch" /\ calls[c] # Idle /\ calls[c].task = "ingest"
      /\ calls[c].url \in Urls /\ calls[c] \in CallStates
  BY InvFacts DEF EndFetch, At, Idle, WellFormed
<1>2. UNCHANGED <<index, export, table, citations, store, handle, document, overlapped, failed>>
  BY DEF EndFetch, connection
<1>3. rows' = rows \/ AppendRow(calls[c].url)
  BY DEF EndFetch
<1>4. rows' \in [Urls -> Nat]
  BY <1>1, <1>3, InvFacts DEF AppendRow, StateTyped
<1>5. StateTyped'
  BY <1>2, <1>4, InvFacts DEF StateTyped
<1>6. ASSUME Coherent, Relies(calls[c]) PROVE Coherent'
  <2>1. rows[calls[c].url] = 0
    BY <1>1, <1>6 DEF Relies
  <2>2. \A u \in Urls : rows'[u] = rows[u] \/ (rows'[u] = 1 /\ rows[u] = 0)
    BY <1>1, <1>3, <2>1, InvFacts DEF AppendRow, StateTyped
  <2>3. \A u \in Urls : rows'[u] <= 1 /\ (rows[u] > 0 => rows'[u] > 0)
    BY <1>6, <2>2, InvFacts DEF Coherent, StateTyped
  <2>4. \A r \in citations : \A u \in r.support : u \in Urls
    BY InvFacts DEF Records
  <2> QED
    BY <1>2, <1>6, <2>3, <2>4 DEF Coherent
<1>7. CASE Reply(c)
  BY <1>1, <1>2, <1>5, <1>6, <1>7, ReplyKeeps
<1>8. CASE AppendRow(calls[c].url) /\ GoTo(c, calls[c], "embed")
  <2>1. PICK k : k = After(calls[c], "embed")
    OBVIOUS
  <2>2. calls' = [calls EXCEPT ![c] = k]
    BY <1>8, <2>1, GoToAfter
  <2>3. "embed" \in Steps /\ "embed" \notin Holding
    BY DEF Steps, Holding
  <2>4. /\ k \in CallStates /\ k.step = "embed" /\ k.store = 0 /\ k.task = "ingest"
        /\ k.url = calls[c].url
    BY <1>1, <2>1, <2>3, AfterFields
  <2>5. WellFormed(k)
    BY <1>1, <2>4 DEF WellFormed, Inserting, Deleting, Citing, Holding
  <2>6. ASSUME Coherent, Relies(calls[c]) PROVE Relies(k)'
    <3>1. rows[calls[c].url] = 0
      BY <1>1, <2>6 DEF Relies
    <3>2. rows'[k.url] > 0
      BY <1>1, <1>8, <2>4, <3>1, InvFacts DEF AppendRow, StateTyped
    <3>3. ~failed => index[k.url] = 0
      BY <1>1, <2>4, <2>6, <3>1, InvFacts DEF Coherent, StateTyped
    <3> QED
      BY <1>2, <2>4, <3>2, <3>3 DEF Relies, Inserting, Holding
  <2> QED
    BY <1>1, <1>2, <1>5, <1>6, <2>2, <2>4, <2>5, <2>6, TurnKeeps
<1> QED
  BY <1>7, <1>8 DEF EndFetch

\* A call between its wait and the store: the source it inserts, the query
\* it searches for or the deletion it begins stays as it was.
LEMMA ConnectKeeps ==
  ASSUME KnowledgeInv, NEW c \in Calls, NEW call \in CallStates,
         NEW then \in {"insert", "search", "delete"}, Connect(c, call, then),
         UNCHANGED <<rows, index, export, table, citations, store, handle, document, failed>>,
         (calls[c] # Idle /\ overlapped' = overlapped) \/ Start,
         call.task = "document" => calls[c].task = "document" /\ call.lines = calls[c].lines,
         then = "search" => call.task = "document",
         then = "delete" <=> call.task = "delete",
         then = "insert" => call.task \in {"ingest", "document"},
         then # "search" => call.url \in Urls,
         call.task = "document" => call.lines # {},
         ~overlapped' /\ Coherent /\ Relies(calls[c]) =>
           /\ then = "insert" => rows[call.url] > 0 /\ (~failed => index[call.url] = 0)
           /\ call.task = "document" => \A u \in call.kept : index[u] > 0 /\ rows[u] > 0
           /\ call.task = "delete" => call.kept \subseteq {call.url}
           /\ call.task = "delete" /\ ~failed => (call.kept = {} => export[call.url] = 0)
  PROVE  KnowledgeInv'
<1>1. PICK k \in CallStates :
           /\ calls' = [calls EXCEPT ![c] = k]
           /\ k.task = call.task /\ k.lines = call.lines /\ k.kept = call.kept /\ k.url = call.url
           /\ \/ k.step = "open" /\ k.then = then /\ k.store = 0
              \/ store # 0 /\ k.store = store /\ Operated(k, handle[store], then)
  BY InvFacts, ConnectMove
<1>2. WellFormed(k)
  BY <1>1 DEF WellFormed, Inserting, Deleting, Citing, Holding, Operated
<1>3. StateTyped'
  BY InvFacts DEF StateTyped
<1>4. Coherent => Coherent'
  BY DEF Coherent
<1>5. ASSUME ~overlapped', Coherent, Relies(calls[c]) PROVE Relies(k)'
  <2>1. store # 0 => handle[store] = table
    BY <1>5 DEF Coherent
  <2>2. CASE then = "insert"
    BY <1>1, <1>5, <2>1, <2>2 DEF Relies, Inserting, Holding, Operated
  <2>3. CASE then = "search"
    BY <1>1, <1>5, <2>1, <2>3 DEF Relies, Inserting, Holding, Operated
  <2>4. CASE then = "delete"
    BY <1>1, <1>5, <2>1, <2>4 DEF Relies, Inserting, Holding, Operated
  <2> QED
    BY <2>2, <2>3, <2>4
<1> QED
  BY <1>1, <1>2, <1>3, <1>4, <1>5, TurnKeeps

LEMMA EmbeddedKeeps ==
  ASSUME KnowledgeInv, NEW c \in Calls, Embedded(c)
  PROVE  KnowledgeInv'
<1>1. PICK o : o = calls[c]
  OBVIOUS
<1>2. o.step = "embed" /\ o # Idle /\ o \in CallStates /\ WellFormed(o)
  BY <1>1, InvFacts DEF Embedded, At, Idle
<1>3. /\ o.task \in {"ingest", "document"} /\ o.url \in Urls
      /\ o.task = "document" => o.lines # {}
  BY <1>2 DEF WellFormed, Inserting
<1>4. /\ UNCHANGED <<rows, index, export, table, citations, store, handle, document, failed>>
      /\ overlapped' = overlapped /\ Connect(c, o, "insert")
  BY <1>1 DEF Embedded, kb, connection
<1>5. Relies(o) => /\ rows[o.url] > 0 /\ (~failed => index[o.url] = 0)
                   /\ o.task = "document" => \A u \in o.kept : index[u] > 0 /\ rows[u] > 0
  BY <1>2 DEF Relies, Inserting
<1> QED
  BY <1>1, <1>2, <1>3, <1>4, <1>5, ConnectKeeps

LEMMA EndQueryKeeps ==
  ASSUME KnowledgeInv, NEW c \in Calls, EndQuery(c)
  PROVE  KnowledgeInv'
<1>1. PICK o : o = calls[c]
  OBVIOUS
<1>2. o.step = "query" /\ o # Idle /\ o \in CallStates /\ WellFormed(o)
  BY <1>1, InvFacts DEF EndQuery, At, Idle
<1>3. o.task = "document" /\ o.lines # {}
  BY <1>2 DEF WellFormed, Citing
<1>4. /\ UNCHANGED <<rows, index, export, table, citations, store, handle, document, failed>>
      /\ overlapped' = overlapped /\ Connect(c, o, "search")
  BY <1>1 DEF EndQuery, kb, connection
<1>5. Relies(o) => \A u \in o.kept : index[u] > 0 /\ rows[u] > 0
  BY <1>3 DEF Relies
<1> QED
  BY <1>1, <1>2, <1>3, <1>4, <1>5, ConnectKeeps

LEMMA BeginDeleteKeeps ==
  ASSUME KnowledgeInv, NEW c \in Calls, NEW u \in Urls, BeginDelete(c, u)
  PROVE  KnowledgeInv'
<1>1. PICK o : o = [Idle EXCEPT !.task = "delete", !.url = u, !.kept = Listed(u)]
  OBVIOUS
<1>2. Listed(u) \in SUBSET Urls
  BY DEF Listed
<1>3. o \in CallStates /\ o.task = "delete" /\ o.url = u /\ o.kept = Listed(u)
  BY <1>1, <1>2, IdleWellFormed DEF Idle, CallStates
<1>4. /\ UNCHANGED <<rows, index, export, table, citations, store, handle, document, failed>>
      /\ Start /\ Connect(c, o, "delete")
  BY <1>1 DEF BeginDelete, kb, connection
<1>5. o.kept \subseteq {u} /\ (o.kept = {} => export[u] = 0)
  BY <1>3, InvFacts DEF Listed, StateTyped
<1> QED
  BY <1>3, <1>4, <1>5, ConnectKeeps

LEMMA OpenKeeps ==
  ASSUME KnowledgeInv, NEW c \in Calls, Open(c)
  PROVE  KnowledgeInv'
<1>1. PICK o : o = calls[c]
  OBVIOUS
<1>2. o.step = "open" /\ o # Idle /\ o \in CallStates /\ WellFormed(o)
  BY <1>1, InvFacts DEF Open, At, Idle
<1>3. PICK s : s = FreshStore
  OBVIOUS
<1>4. s \in Stores /\ s \in 1 .. Cardinality(Calls) + 1
  BY <1>1, <1>2, <1>3, FreshIsStore, InvFacts
<1>4a. s \in 0 .. Cardinality(Calls) + 1 /\ s # 0
  BY <1>4, Bounds
<1>5. /\ store' = s /\ handle' = [handle EXCEPT ![s] = table]
      /\ GoTo(c, [o EXCEPT !.store = s], StepWith(table, o.then))
  BY <1>1, <1>3 DEF Open, TableThere
<1>6. UNCHANGED <<rows, index, export, table, citations, document, overlapped, failed>>
  BY DEF Open, kb
<1>7. PICK p : p = [o EXCEPT !.store = s]
  OBVIOUS
<1>8. p \in CallStates /\ p.store = s /\ p.task = o.task /\ p.lines = o.lines /\ p.kept = o.kept
      /\ p.url = o.url
  BY <1>2, <1>4a, <1>7 DEF CallStates
<1>9. PICK t : t = StepWith(table, o.then)
  OBVIOUS
<1>10. o.then \in {"insert", "search", "delete"}
  BY <1>2 DEF WellFormed, CallStates
<1>11. /\ t \in Steps /\ t \in Holding /\ t \notin {"query", "audit", "open"}
       /\ t = IF o.then # "insert" THEN o.then ELSE IF table THEN "add" ELSE "create"
  BY <1>9, <1>10 DEF Steps, Holding, StepWith
<1>12. PICK k : k = After(p, t)
  OBVIOUS
<1>13. /\ k \in CallStates /\ k.step = t /\ k.store = s /\ k.task = o.task /\ k.lines = o.lines
       /\ k.kept = o.kept /\ k.url = o.url /\ k.then = "idle"
  BY <1>8, <1>11, <1>12, AfterFields
<1>14. calls' = [calls EXCEPT ![c] = k]
  BY <1>5, <1>7, <1>9, <1>12, GoToAfter
<1>15. WellFormed(k)
  BY <1>2, <1>10, <1>11, <1>13 DEF WellFormed, Inserting, Deleting, Citing, Holding
<1>16. handle' \in [Stores -> BOOLEAN] /\ handle'[s] = table
  BY <1>4, <1>5, InvFacts DEF StateTyped
<1>17. StateTyped'
  BY <1>4a, <1>5, <1>6, <1>16, InvFacts DEF StateTyped
<1>18. ASSUME Coherent, Relies(o) PROVE Coherent' /\ Relies(k)'
  <2>1. Coherent'
    BY <1>5, <1>6, <1>16, <1>18 DEF Coherent
  <2>2. Inserting(k) => Inserting(o)
    BY <1>2, <1>10, <1>11, <1>13 DEF Inserting
  <2>3. Relies(k)'
    <3>1. Inserting(k) => rows[k.url] > 0 /\ (~failed => index[k.url] = 0)
      BY <1>13, <1>18, <2>2 DEF Relies
    <3>2. k.step = "create" => ~table
      BY <1>10, <1>11, <1>13
    <3>3. k.step # "fetch" /\ k.step # "unlist"
      BY <1>10, <1>11, <1>13
    <3>4. k.task = "document" => \A u \in k.kept : index[u] > 0 /\ rows[u] > 0
      BY <1>13, <1>18 DEF Relies
    <3>5. /\ k.task = "delete" => k.kept \subseteq {k.url}
          /\ k.task = "delete" /\ ~failed => (k.kept = {} => export[k.url] = 0)
      BY <1>13, <1>18 DEF Relies
    <3> QED
      BY <1>4a, <1>5, <1>6, <1>13, <3>1, <3>2, <3>3, <3>4, <3>5 DEF Relies, Inserting
  <2> QED
    BY <2>1, <2>3
<1> QED
  BY <1>1, <1>2, <1>6, <1>13, <1>14, <1>15, <1>17, <1>18, TurnKeeps

LEMMA FailQueryKeeps ==
  ASSUME KnowledgeInv, NEW c \in Calls, FailQuery(c)
  PROVE  KnowledgeInv'
<1>1. PICK o : o = calls[c]
  OBVIOUS
<1>2. o.step \in {"query", "search"} /\ o # Idle /\ o \in CallStates /\ WellFormed(o)
  BY <1>1, InvFacts DEF FailQuery, Idle
<1>3. o.task = "document" /\ o.lines # {} /\ o.kept \in SUBSET Urls
  BY <1>2 DEF WellFormed, Citing, CallStates
<1>4. /\ Cite(c, o, o.kept)
      /\ UNCHANGED <<rows, index, export, table, connection, document, overlapped, failed>>
  BY <1>1 DEF FailQuery
<1>5. PICK k : MovedOn(c, k, o.lines) /\ Recorded(k, o, o.kept)
  BY <1>2, <1>3, <1>4, CiteMove
<1>6. Relies(o) => \A u \in o.kept : index[u] > 0 /\ rows[u] > 0
  BY <1>3 DEF Relies
<1> QED
  BY <1>1, <1>2, <1>3, <1>4, <1>5, <1>6, CitingKeeps

LEMMA NoResultKeeps ==
  ASSUME KnowledgeInv, NEW c \in Calls, NoResult(c)
  PROVE  KnowledgeInv'
<1>1. PICK o : o = calls[c]
  OBVIOUS
<1>2. o.step = "web" /\ o # Idle /\ o \in CallStates /\ WellFormed(o)
  BY <1>1, InvFacts DEF NoResult, At, Idle
<1>3. o.task = "document" /\ o.lines # {} /\ o.kept \in SUBSET Urls
  BY <1>2 DEF WellFormed, Citing, CallStates
<1>4. /\ Cite(c, o, o.kept)
      /\ UNCHANGED <<rows, index, export, table, connection, document, overlapped, failed>>
  BY <1>1 DEF NoResult
<1>5. PICK k : MovedOn(c, k, o.lines) /\ Recorded(k, o, o.kept)
  BY <1>2, <1>3, <1>4, CiteMove
<1>6. Relies(o) => \A u \in o.kept : index[u] > 0 /\ rows[u] > 0
  BY <1>3 DEF Relies
<1> QED
  BY <1>1, <1>2, <1>3, <1>4, <1>5, <1>6, CitingKeeps

LEMMA UselessResultKeeps ==
  ASSUME KnowledgeInv, NEW c \in Calls, NEW v \in Urls, UselessResult(c, v)
  PROVE  KnowledgeInv'
<1>1. PICK o : o = calls[c]
  OBVIOUS
<1>2. o.step = "web" /\ o # Idle /\ o \in CallStates /\ WellFormed(o)
  BY <1>1, InvFacts DEF UselessResult, At, Idle
<1>3. o.task = "document" /\ o.lines # {} /\ o.kept \in SUBSET Urls
  BY <1>2 DEF WellFormed, Citing, CallStates
<1>4. PICK p : p = [o EXCEPT !.seen = @ \cup {v}]
  OBVIOUS
<1>5. p \in CallStates /\ p.task = "document" /\ p.lines = o.lines /\ p.kept = o.kept
  BY <1>2, <1>3, <1>4 DEF CallStates
<1>6. /\ Unlifted(c, p)
      /\ UNCHANGED <<rows, index, export, table, connection, document, overlapped, failed>>
  BY <1>1, <1>4 DEF UselessResult
<1>7. PICK k : MovedOn(c, k, p.lines) /\ Recorded(k, p, p.kept)
  BY <1>3, <1>5, <1>6, UnliftedMove
<1>8. Relies(o) => \A u \in p.kept : index[u] > 0 /\ rows[u] > 0
  BY <1>3, <1>5 DEF Relies
<1> QED
  BY <1>1, <1>2, <1>3, <1>5, <1>6, <1>7, <1>8, CitingKeeps

LEMMA SearchKeeps ==
  ASSUME KnowledgeInv, NEW c \in Calls, Search(c)
  PROVE  KnowledgeInv'
<1>1. PICK o : o = calls[c]
  OBVIOUS
<1>2. o.step = "search" /\ o # Idle /\ o \in CallStates /\ WellFormed(o)
  BY <1>1, InvFacts DEF Search, At, Idle
<1>3. o.task = "document" /\ o.lines # {} /\ o.kept \in SUBSET Urls
  BY <1>2 DEF WellFormed, Citing, CallStates
<1>4. UNCHANGED <<rows, index, export, table, connection, document, overlapped, failed>>
  BY DEF Search
<1>5. PICK found \in SUBSET Searchable(o), above \in BOOLEAN :
        IF (found = {} \/ ~above) /\ ~o.tried /\ o.searches < SearchCap
          THEN GoTo(c, Discovering(o, found), "web") /\ UNCHANGED citations
          ELSE Cite(c, o, IF (found = {} \/ ~above) /\ o.kept # {} THEN o.kept ELSE found)
  BY <1>1 DEF Search
<1>6. found \in SUBSET Urls /\ \A u \in found : index[u] > 0 /\ rows[u] > 0
  BY Bounds DEF Searchable, Known
<1>7. CASE GoTo(c, Discovering(o, found), "web") /\ UNCHANGED citations
  <2>1. PICK p : p = Discovering(o, found)
    OBVIOUS
  <2>2. o.searches + 1 \in Nat
    BY <1>2 DEF CallStates
  <2>3. p \in CallStates /\ p.task = "document" /\ p.lines = o.lines /\ p.kept = found
    BY <1>2, <1>3, <1>6, <2>1, <2>2 DEF Discovering, CallStates
  <2>4. PICK k : /\ WellFormed(k) /\ calls' = [calls EXCEPT ![c] = k]
                 /\ k.task = "document" /\ k.step = "web" /\ k.kept = found /\ k.lines = o.lines
    BY <1>3, <1>7, <2>1, <2>3, QueryMove
  <2>5. StateTyped' /\ (Coherent => Coherent')
    BY <1>4, <1>7, InvFacts DEF StateTyped, connection, Coherent
  <2>6. Relies(k)'
    BY <1>4, <1>6, <2>4 DEF Relies, Inserting, Holding, connection
  <2> QED
    BY <1>1, <1>2, <1>3, <1>4, <1>7, <2>4, <2>5, <2>6, TurnKeeps
<1>8. CASE Cite(c, o, IF (found = {} \/ ~above) /\ o.kept # {} THEN o.kept ELSE found)
  <2>1. PICK s : s = IF (found = {} \/ ~above) /\ o.kept # {} THEN o.kept ELSE found
    OBVIOUS
  <2>2. s \in SUBSET Urls
    BY <1>3, <1>6, <2>1
  <2>3. PICK k : MovedOn(c, k, o.lines) /\ Recorded(k, o, s)
    BY <1>2, <1>3, <1>8, <2>1, <2>2, CiteMove
  <2>4. Relies(o) => \A u \in s : index[u] > 0 /\ rows[u] > 0
    BY <1>3, <1>6, <2>1 DEF Relies
  <2> QED
    BY <1>1, <1>2, <1>3, <1>4, <2>2, <2>3, <2>4, CitingKeeps
<1> QED
  BY <1>5, <1>7, <1>8

LEMMA KnownResultKeeps ==
  ASSUME KnowledgeInv, NEW c \in Calls, NEW v \in Urls, KnownResult(c, v)
  PROVE  KnowledgeInv'
<1>1. PICK o : o = calls[c]
  OBVIOUS
<1>2. o.step = "web" /\ o # Idle /\ o \in CallStates /\ WellFormed(o)
  BY <1>1, InvFacts DEF KnownResult, At, Idle
<1>3. o.task = "document" /\ o.lines # {} /\ o.kept \in SUBSET Urls
  BY <1>2 DEF WellFormed, Citing, CallStates
<1>4. PICK p : p = [o EXCEPT !.seen = @ \cup {v}]
  OBVIOUS
<1>5. p \in CallStates /\ p.task = "document" /\ p.lines = o.lines /\ p.kept = o.kept
  BY <1>2, <1>3, <1>4 DEF CallStates
<1>6. /\ GoTo(c, p, "query")
      /\ UNCHANGED <<rows, index, export, table, citations, store, handle, document, overlapped, failed>>
  BY <1>1, <1>4 DEF KnownResult, kb, connection
<1>7. PICK k : /\ WellFormed(k) /\ calls' = [calls EXCEPT ![c] = k]
               /\ k.task = "document" /\ k.step = "query" /\ k.kept = o.kept /\ k.lines = o.lines
  BY <1>3, <1>5, <1>6, QueryMove
<1>8. StateTyped' /\ (Coherent => Coherent')
  BY <1>6, InvFacts DEF StateTyped, Coherent
<1>9. Relies(o) => Relies(k)'
  BY <1>3, <1>6, <1>7 DEF Relies, Inserting, Holding
<1> QED
  BY <1>1, <1>2, <1>3, <1>6, <1>7, <1>8, <1>9, TurnKeeps

LEMMA NewResultKeeps ==
  ASSUME KnowledgeInv, NEW c \in Calls, NEW v \in Urls, NewResult(c, v)
  PROVE  KnowledgeInv'
<1>1. PICK o : o = calls[c]
  OBVIOUS
<1>2. o.step = "web" /\ o # Idle /\ o \in CallStates /\ WellFormed(o)
  BY <1>1, InvFacts DEF NewResult, At, Idle
<1>3. o.task = "document" /\ o.lines # {} /\ o.kept \in SUBSET Urls
  BY <1>2 DEF WellFormed, Citing, CallStates
<1>4. PICK p : p = [o EXCEPT !.seen = @ \cup {v}, !.url = v]
  OBVIOUS
<1>5. p \in CallStates /\ p.task = "document" /\ p.lines = o.lines /\ p.kept = o.kept /\ p.url = v
  BY <1>2, <1>3, <1>4 DEF CallStates
<1>6. /\ GoTo(c, p, "embed") /\ AppendRow(v) /\ rows[v] = 0
      /\ UNCHANGED <<index, export, table, citations, store, handle, document, overlapped, failed>>
  BY <1>1, <1>4, InvFacts DEF NewResult, connection, Known, StateTyped
<1>7. "embed" \in Steps /\ "embed" \notin Holding
  BY DEF Steps, Holding
<1>8. PICK k : k = After(p, "embed")
  OBVIOUS
<1>9. /\ k \in CallStates /\ k.step = "embed" /\ k.store = 0 /\ k.task = "document"
      /\ k.url = v /\ k.kept = o.kept /\ k.lines = o.lines
  BY <1>5, <1>7, <1>8, AfterFields
<1>10. calls' = [calls EXCEPT ![c] = k]
  BY <1>6, <1>8, GoToAfter
<1>11. WellFormed(k)
  BY <1>3, <1>9 DEF WellFormed, Inserting, Deleting, Citing, Holding
<1>12. /\ rows' \in [Urls -> Nat] /\ rows'[v] = 1
       /\ \A u \in Urls : rows'[u] = rows[u] \/ (rows'[u] = 1 /\ rows[u] = 0)
  BY <1>6, InvFacts DEF AppendRow, StateTyped
<1>13. StateTyped'
  BY <1>6, <1>12, InvFacts DEF StateTyped
<1>14. ASSUME Coherent PROVE Coherent'
  <2>1. \A u \in Urls : rows'[u] <= 1 /\ (rows[u] > 0 => rows'[u] > 0)
    BY <1>12, <1>14, InvFacts DEF Coherent, StateTyped
  <2>2. \A r \in citations : \A u \in r.support : u \in Urls
    BY InvFacts DEF Records
  <2> QED
    BY <1>6, <1>14, <2>1, <2>2 DEF Coherent
<1>15. ASSUME Coherent, Relies(o) PROVE Relies(k)'
  <2>1. \A u \in k.kept : u \in Urls /\ index[u] > 0 /\ rows'[u] > 0
    BY <1>3, <1>9, <1>12, <1>15, InvFacts DEF Relies, StateTyped
  <2>2. ~failed => index[v] = 0
    BY <1>6, <1>15, InvFacts DEF Coherent, StateTyped
  <2> QED
    BY <1>6, <1>9, <1>12, <2>1, <2>2 DEF Relies, Inserting, Holding
<1> QED
  BY <1>1, <1>2, <1>3, <1>6, <1>9, <1>10, <1>11, <1>13, <1>14, <1>15, TurnKeeps

\* An insert adds one copy of its source; when it creates the table it drops
\* every other, and there is none if the table was not there.
LEMMA InsertedFacts ==
  ASSUME KnowledgeInv, NEW call, call.url \in Urls, call.step \in {"create", "add"}
  PROVE  /\ Inserted(call) \in [Urls -> Nat]
         /\ Coherent /\ (call.step = "create" => ~table) =>
              \A u \in Urls : Inserted(call)[u] = IF u = call.url THEN index[u] + 1 ELSE index[u]
<1>1. index \in [Urls -> Nat]
  BY DEF KnowledgeInv, KnowledgeTypeOK
<1>2. CASE call.step = "create"
  <2>1. Inserted(call) = [u \in Urls |-> IF u = call.url THEN 1 ELSE 0]
    BY <1>2 DEF Inserted
  <2> QED
    BY <1>2, <2>1 DEF Coherent
<1>3. CASE call.step = "add"
  <2>1. Inserted(call) = [index EXCEPT ![call.url] = @ + 1]
    BY <1>3 DEF Inserted
  <2> QED
    BY <1>1, <1>3, <2>1
<1> QED
  BY <1>2, <1>3

LEMMA InsertKeeps ==
  ASSUME KnowledgeInv, NEW c \in Calls, Insert(c)
  PROVE  KnowledgeInv'
<1>1. PICK o : o = calls[c]
  OBVIOUS
<1>2. PICK appended \in BOOLEAN :
        /\ o.step \in {"create", "add"}
        /\ index' = Inserted(o) /\ table' = TRUE
        /\ handle' = [handle EXCEPT ![o.store] = TRUE]
        /\ export' = IF appended THEN [export EXCEPT ![o.url] = @ + 1] ELSE export
        /\ failed' = (failed \/ ~appended)
        /\ IF o.task = "ingest" THEN Reply(c) /\ UNCHANGED citations
           ELSE IF appended THEN GoTo(c, o, "query") /\ UNCHANGED citations
           ELSE Unlifted(c, o)
        /\ UNCHANGED <<rows, store, document, overlapped>>
  BY <1>1 DEF Insert
<1>3. o # Idle /\ o \in CallStates /\ WellFormed(o)
  BY <1>1, <1>2, InvFacts DEF Idle
<1>4. /\ o.task \in {"ingest", "document"} /\ o.url \in Urls
      /\ o.task = "document" => o.lines # {}
  BY <1>2, <1>3 DEF WellFormed, Inserting
<1>5. /\ index' \in [Urls -> Nat] /\ export' \in [Urls -> Nat] /\ failed' \in BOOLEAN
      /\ table' \in BOOLEAN /\ handle' \in [Stores -> BOOLEAN]
  <2>1. index' \in [Urls -> Nat]
    BY <1>2, <1>4, InsertedFacts
  <2>2. export' \in [Urls -> Nat]
    BY <1>2, <1>4, InvFacts DEF StateTyped
  <2>3. failed' \in BOOLEAN /\ table' \in BOOLEAN
    BY <1>2
  <2>4. handle' \in [Stores -> BOOLEAN]
    BY <1>2, InvFacts DEF StateTyped
  <2> QED
    BY <2>1, <2>2, <2>3, <2>4
<1>6. StateTyped'
  BY <1>2, <1>5, InvFacts DEF StateTyped
<1>7. ASSUME Coherent, Relies(o)
      PROVE  \A u \in Urls : index'[u] = IF u = o.url THEN index[u] + 1 ELSE index[u]
  BY <1>2, <1>4, <1>7, InsertedFacts DEF Relies
<1>8. ASSUME Coherent, Relies(o), citations' = citations \/ ~appended
      PROVE  Coherent'
  <2>1. o.store = store /\ store # 0 /\ store \in Stores
    BY <1>2, <1>8, InvFacts, Bounds DEF Relies, Holding, Stores, StateTyped
  <2>2. handle'[store'] = TRUE
    BY <1>2, <2>1, InvFacts DEF StateTyped
  <2>3. \A u \in Urls : export[u] > 0 => export'[u] > 0
    BY <1>2, <1>4, InvFacts DEF StateTyped
  <2>4. appended => export'[o.url] > 0
    BY <1>2, <1>4, InvFacts DEF StateTyped
  <2>5. ~failed' => rows[o.url] > 0 /\ index[o.url] = 0
    BY <1>2, <1>8 DEF Relies, Inserting
  <2>6. ASSUME ~failed', NEW u \in Urls
        PROVE  index'[u] <= 1 /\ (index'[u] > 0 => export'[u] > 0 /\ rows'[u] > 0)
    <3>1. ~failed /\ appended
      BY <1>2, <2>6
    <3>2. CASE u = o.url
      <4>1. index'[u] = 1
        BY <1>4, <1>7, <1>8, <2>5, <2>6, <3>2
      <4> QED
        BY <1>2, <2>4, <2>5, <2>6, <3>1, <3>2, <4>1
    <3>3. CASE u # o.url
      <4>1. index'[u] = index[u]
        BY <1>7, <1>8, <3>3
      <4> QED
        BY <1>2, <1>8, <2>3, <2>6, <3>1, <4>1 DEF Coherent
    <3> QED
      BY <3>2, <3>3
  <2>7. ASSUME ~failed', NEW r \in citations', NEW u \in r.support
        PROVE  export'[u] > 0 /\ rows'[u] > 0
    <3>1. ~failed /\ appended
      BY <1>2, <2>7
    <3>2. r \in citations
      BY <1>8, <2>7, <3>1
    <3>3. u \in Urls
      BY <2>7, <3>2, InvFacts DEF Records
    <3> QED
      BY <1>2, <1>8, <2>3, <2>7, <3>1, <3>2, <3>3 DEF Coherent
  <2> QED
    BY <1>2, <1>8, <2>2, <2>6, <2>7 DEF Coherent
<1>9. CASE o.task = "ingest"
  BY <1>1, <1>2, <1>3, <1>6, <1>8, <1>9, ReplyKeeps
<1>10. ASSUME Coherent, Relies(o), o.task = "document"
       PROVE  \A u \in o.kept : index'[u] > 0 /\ rows'[u] > 0
  <2>1. \A u \in o.kept : u \in Urls /\ index[u] > 0 /\ rows[u] > 0
    BY <1>3, <1>10 DEF Relies, CallStates
  <2> QED
    BY <1>2, <1>7, <1>10, <2>1, InvFacts DEF StateTyped
<1>11. CASE o.task = "document" /\ appended
  <2>1. GoTo(c, o, "query") /\ citations' = citations
    BY <1>2, <1>11
  <2>2. PICK k : /\ WellFormed(k) /\ calls' = [calls EXCEPT ![c] = k]
                 /\ k.task = "document" /\ k.step = "query" /\ k.kept = o.kept /\ k.lines = o.lines
    BY <1>3, <1>4, <1>11, <2>1, QueryMove
  <2>3. ASSUME Coherent, Relies(o) PROVE Relies(k)'
    BY <1>10, <1>11, <2>2, <2>3 DEF Relies, Inserting, Holding
  <2> QED
    BY <1>1, <1>2, <1>3, <1>6, <1>8, <1>11, <2>1, <2>2, <2>3, TurnKeeps
<1>12. CASE o.task = "document" /\ ~appended
  <2>1. Unlifted(c, o)
    BY <1>2, <1>12
  <2>2. PICK k : MovedOn(c, k, o.lines) /\ Recorded(k, o, o.kept)
    BY <1>3, <1>4, <1>12, <2>1, UnliftedMove
  <2>3. WellFormed(k) /\ calls' = [calls EXCEPT ![c] = k] /\ k.lines \subseteq o.lines
    BY <2>2 DEF MovedOn
  <2>4. Relies(k)'
    BY <2>2 DEF MovedOn, Relies, Inserting, Holding
  <2>5. \/ citations' \subseteq citations
        \/ \E r \in Records : /\ citations' = citations \cup {r}
                              /\ r.line \in o.lines /\ r.support # {}
                              /\ k.task = "document" => r.line \notin k.lines
    <3>1. CASE citations' = citations
      BY <3>1
    <3>2. CASE citations' # citations
      <4> DEFINE new == [line |-> Current(o), support |-> o.kept \cap Credible]
      <4>1. Current(o) \in 1 .. MaxLine /\ new \in Records
        BY <1>3, <2>2, <3>2 DEF Recorded, CallStates, Records
      <4>2. /\ citations' = citations \cup {new}
            /\ new.line \in o.lines /\ new.support # {} /\ new.line \notin k.lines
        BY <2>2, <3>2 DEF Recorded
      <4> QED
        BY <4>1, <4>2
    <3> QED
      BY <3>1, <3>2
  <2> QED
    BY <1>1, <1>2, <1>3, <1>6, <1>8, <1>12, <2>3, <2>4, <2>5, TurnKeeps
<1> QED
  BY <1>4, <1>9, <1>11, <1>12

LEMMA FailIngestKeeps ==
  ASSUME KnowledgeInv, NEW c \in Calls, FailIngest(c)
  PROVE  KnowledgeInv'
<1>1. PICK o : o = calls[c]
  OBVIOUS
<1>2. o.step \in {"embed", "create", "add"} /\ o # Idle /\ o \in CallStates /\ WellFormed(o)
  BY <1>1, InvFacts DEF FailIngest, Idle
<1>3. /\ o.task \in {"ingest", "document"} /\ o.kept \in SUBSET Urls
      /\ o.task = "document" => o.lines # {}
  BY <1>2 DEF WellFormed, Inserting, CallStates
<1>4. UNCHANGED <<rows, index, export, table, connection, document, overlapped, failed>>
  BY DEF FailIngest
<1>5. CASE o.task = "ingest"
  <2>1. Reply(c) /\ UNCHANGED citations
    BY <1>1, <1>5 DEF FailIngest
  <2>2. StateTyped' /\ (Coherent => Coherent')
    BY <1>4, <2>1, InvFacts DEF StateTyped, connection, Coherent
  <2> QED
    BY <1>1, <1>2, <1>4, <2>1, <2>2, ReplyKeeps
<1>6. CASE o.task = "document"
  <2>1. Unlifted(c, o)
    BY <1>1, <1>6 DEF FailIngest
  <2>2. PICK k : MovedOn(c, k, o.lines) /\ Recorded(k, o, o.kept)
    BY <1>2, <1>3, <1>6, <2>1, UnliftedMove
  <2>3. Relies(o) => \A u \in o.kept : index[u] > 0 /\ rows[u] > 0
    BY <1>6 DEF Relies
  <2> QED
    BY <1>1, <1>2, <1>3, <1>4, <1>6, <2>2, <2>3, CitingKeeps
<1> QED
  BY <1>3, <1>5, <1>6

LEMMA AuditKeeps ==
  ASSUME KnowledgeInv, NEW c \in Calls, Audit(c)
  PROVE  KnowledgeInv'
<1>1. calls[c] # Idle /\ Reply(c)
  BY DEF Audit, At, Idle
<1>2. UNCHANGED <<rows, index, export, table, citations, store, handle, document, overlapped, failed>>
  BY DEF Audit, kb, connection
<1>3. StateTyped' /\ (Coherent => Coherent')
  BY <1>2, InvFacts DEF StateTyped, Coherent
<1> QED
  BY <1>1, <1>2, <1>3, ReplyKeeps

LEMMA DeleteChunksKeeps ==
  ASSUME KnowledgeInv, NEW c \in Calls, DeleteChunks(c)
  PROVE  KnowledgeInv'
<1>1. PICK o : o = calls[c]
  OBVIOUS
<1>2. PICK deleted \in BOOLEAN :
        /\ o.step = "delete"
        /\ index' = IF deleted /\ handle[o.store] THEN [index EXCEPT ![o.url] = 0] ELSE index
        /\ failed' = (failed \/ ~deleted)
        /\ GoTo(c, o, "unlist")
        /\ UNCHANGED <<rows, export, table, citations, store, handle, document, overlapped>>
  BY <1>1 DEF DeleteChunks, At, connection
<1>3. o # Idle /\ o \in CallStates /\ WellFormed(o)
  BY <1>1, <1>2, InvFacts DEF Idle
<1>4. o.task = "delete" /\ o.url \in Urls
  BY <1>2, <1>3 DEF WellFormed, Deleting
<1>5. PICK k : k = After(o, "unlist")
  OBVIOUS
<1>6. "unlist" \in Steps /\ "unlist" \notin Holding
  BY DEF Steps, Holding
<1>7. /\ k \in CallStates /\ k.step = "unlist" /\ k.store = 0 /\ k.task = "delete"
      /\ k.url = o.url /\ k.kept = o.kept
  BY <1>3, <1>4, <1>5, <1>6, AfterFields
<1>8. calls' = [calls EXCEPT ![c] = k]
  BY <1>2, <1>5, GoToAfter
<1>9. WellFormed(k)
  BY <1>4, <1>7 DEF WellFormed, Inserting, Deleting, Citing, Holding
<1>10. /\ index' \in [Urls -> Nat]
       /\ \A u \in Urls : index'[u] = index[u] \/ index'[u] = 0
  BY <1>2, <1>4, InvFacts DEF StateTyped
<1>11. failed' \in BOOLEAN
  BY <1>2
<1>12. StateTyped'
  BY <1>2, <1>10, <1>11, InvFacts DEF StateTyped
<1>13. ~failed' => ~failed /\ deleted
  BY <1>2
<1>14. ASSUME Coherent PROVE Coherent'
  <2>1. \A u \in Urls : index'[u] <= index[u] /\ (index'[u] > 0 => index'[u] = index[u])
    BY <1>10, InvFacts DEF StateTyped
  <2>2. ~table => \A u \in Urls : index'[u] = 0
    BY <1>10, <1>14 DEF Coherent
  <2>3. ASSUME ~failed', NEW u \in Urls
        PROVE  index'[u] <= 1 /\ (index'[u] > 0 => export[u] > 0 /\ rows[u] > 0)
    <3>1. index[u] <= 1 /\ (index[u] > 0 => export[u] > 0 /\ rows[u] > 0)
      BY <1>13, <1>14, <2>3 DEF Coherent
    <3> QED
      BY <1>10, <3>1, <2>3, InvFacts DEF StateTyped
  <2>4. ~failed' => \A r \in citations : \A u \in r.support : export[u] > 0 /\ rows[u] > 0
    BY <1>13, <1>14 DEF Coherent
  <2> QED
    BY <1>2, <1>14, <2>2, <2>3, <2>4 DEF Coherent
<1>15. ASSUME Coherent, Relies(o) PROVE Relies(k)'
  <2>1. o.store = store /\ store # 0 /\ handle[store] = table
    BY <1>2, <1>15 DEF Relies, Holding, Coherent
  <2>2. deleted => index'[o.url] = 0
    BY <1>2, <1>4, <1>15, <2>1, InvFacts DEF StateTyped, Coherent
  <2>3. k.kept \subseteq {k.url} /\ (~failed => (k.kept = {} => export[k.url] = 0))
    BY <1>4, <1>7, <1>15 DEF Relies
  <2>4. ~failed' => index'[k.url] = 0 /\ (k.kept = {} => export'[k.url] = 0)
    BY <1>2, <1>7, <1>13, <2>2, <2>3
  <2> QED
    BY <1>7, <2>3, <2>4 DEF Relies, Inserting, Holding
<1> QED
  BY <1>1, <1>2, <1>3, <1>7, <1>8, <1>9, <1>12, <1>14, <1>15, TurnKeeps

LEMMA UnlistKeeps ==
  ASSUME KnowledgeInv, NEW c \in Calls, Unlist(c)
  PROVE  KnowledgeInv'
<1>1. PICK o : o = calls[c]
  OBVIOUS
<1>2. PICK removals \in 0 .. 3 :
        /\ o.step = "unlist" /\ Reply(c)
        /\ rows' = IF removals = 0 THEN rows ELSE [rows EXCEPT ![o.url] = 0]
        /\ export' = IF removals < 2 THEN export ELSE [export EXCEPT ![o.url] = 0]
        /\ citations' = IF removals < 3 THEN citations
                        ELSE {r \in citations : r.support \cap o.kept = {}}
        /\ failed' = (failed \/ removals < 3)
        /\ UNCHANGED <<index, table, store, handle, document, overlapped>>
  <2>1. BrokenRemovals \subseteq 0 .. 3
    BY KnowledgeAssumption
  <2> QED
    BY <1>1, <2>1 DEF Unlist, At, connection
<1>3. o # Idle /\ o \in CallStates /\ WellFormed(o)
  BY <1>1, <1>2, InvFacts DEF Idle
<1>4. o.task = "delete" /\ o.url \in Urls
  BY <1>2, <1>3 DEF WellFormed, Deleting
<1>5. StateTyped'
  BY <1>2, <1>4, InvFacts DEF StateTyped
<1>6. \A u \in Urls : /\ u # o.url => rows'[u] = rows[u] /\ export'[u] = export[u]
                      /\ rows'[u] = rows[u] \/ rows'[u] = 0
  BY <1>2, <1>4, InvFacts DEF StateTyped
<1>7. ~failed' => ~failed /\ removals = 3
  <2>1. removals = 3 \/ removals < 3
    OBVIOUS
  <2> QED
    BY <1>2, <2>1, Zenon
<1>8. ASSUME Coherent, Relies(o) PROVE Coherent'
  <2>1. ~failed => index[o.url] = 0
    BY <1>2, <1>8 DEF Relies
  <2>2. \A u \in Urls : rows'[u] <= 1
    BY <1>6, <1>8 DEF Coherent
  <2>3. ASSUME ~failed', NEW u \in Urls
        PROVE  index[u] <= 1 /\ (index[u] > 0 => export'[u] > 0 /\ rows'[u] > 0)
    BY <1>6, <1>8, <1>7, <2>1, <2>3 DEF Coherent
  <2>4. ASSUME ~failed', NEW r \in citations', NEW u \in r.support
        PROVE  export'[u] > 0 /\ rows'[u] > 0
    <3>1. r \in citations /\ u \notin o.kept /\ u \in Urls
      BY <1>2, <1>7, <2>4, InvFacts DEF Records
    <3>2. export[u] > 0 /\ rows[u] > 0
      BY <1>8, <1>7, <2>4, <3>1 DEF Coherent
    <3>3. u # o.url
      <4>1. o.kept = {} => export[o.url] = 0
        BY <1>4, <1>8, <1>7, <2>4 DEF Relies
      <4>2. o.kept \subseteq {o.url}
        BY <1>4, <1>8 DEF Relies
      <4>3. CASE o.kept = {}
        BY <3>2, <4>1, <4>3
      <4>4. CASE o.kept # {}
        BY <3>1, <4>2, <4>4
      <4> QED
        BY <4>3, <4>4
    <3> QED
      BY <1>6, <3>1, <3>2, <3>3
  <2> QED
    BY <1>2, <1>8, <2>2, <2>3, <2>4 DEF Coherent
<1>9. citations' \subseteq citations
  BY <1>2
<1> QED
  BY <1>1, <1>2, <1>3, <1>5, <1>8, <1>9, ReplyKeeps

LEMMA BeginDocumentKeeps ==
  ASSUME KnowledgeInv, NEW c \in Calls, NEW d \in Documents, BeginDocument(c, d)
  PROVE  KnowledgeInv'
<1>1. PICK o : o = [Idle EXCEPT !.task = "document", !.lines = d]
  OBVIOUS
<1>2. d \subseteq 1 .. MaxLine /\ d # {}
  BY DEF Documents
<1>3. o \in CallStates /\ o.task = "document" /\ o.lines = d /\ o.kept = {}
  BY <1>1, <1>2, IdleWellFormed DEF Idle, CallStates
<1>4. /\ calls[c] = Idle /\ document = {} /\ document' = d /\ Start /\ GoTo(c, o, "query")
      /\ UNCHANGED <<rows, index, export, table, citations, store, handle, failed>>
  BY <1>1 DEF BeginDocument, kb, connection
<1>5. PICK k : /\ WellFormed(k) /\ calls' = [calls EXCEPT ![c] = k]
               /\ k.task = "document" /\ k.step = "query" /\ k.kept = {} /\ k.lines = d
  BY <1>2, <1>3, <1>4, QueryMove
<1>6. KnowledgeTypeOK /\ CitedOnce /\ Alone
  BY InvFacts
<1>7. /\ calls' \in [Calls -> CallStates] /\ \A e \in Calls : WellFormed(calls'[e])
      /\ \A e \in Calls : calls'[e] = IF e = c THEN k ELSE calls[e]
  BY <1>5, <1>6, TurnTyped
<1>8. overlapped' \in BOOLEAN
  BY <1>4, <1>6 DEF Start, KnowledgeTypeOK
<1>9. KnowledgeTypeOK'
  BY <1>2, <1>4, <1>6, <1>7, <1>8 DEF KnowledgeTypeOK
<1>10. CitedOnce'
  <2>1. citations' = {} /\ \A e \in Calls : calls'[e].task = "document" => e = c
    BY <1>4, <1>6, <1>7 DEF CitedOnce
  <2> QED
    BY <1>2, <1>4, <2>1 DEF CitedOnce
<1>11. Coherent => Coherent'
  BY <1>4 DEF Coherent
<1>12. Relies(k)'
  BY <1>5 DEF Relies, Inserting, Holding
<1>13. Alone'
  BY <1>4, <1>5, <1>6, <1>11, <1>12, AloneTurn
<1> QED
  BY <1>9, <1>10, <1>13 DEF KnowledgeInv

LEMMA CrashKeeps ==
  ASSUME KnowledgeInv, Crash
  PROVE  KnowledgeInv'
<1>1. KnowledgeTypeOK /\ CitedOnce /\ Alone
  BY DEF KnowledgeInv
<1>2. /\ calls' = [c \in Calls |-> Idle]
      /\ store' = 0 /\ handle' = [s \in Stores |-> FALSE] /\ failed' = TRUE
      /\ UNCHANGED <<rows, export, citations, document, overlapped>>
  BY DEF Crash
<1>3. \A c \in Calls : calls'[c] = Idle
  BY <1>2
<1>4. index' \in [Urls -> Nat] /\ table' \in BOOLEAN /\ (~table' => index' = index /\ ~table)
  <2>1. CASE UNCHANGED <<index, table>>
    BY <1>1, <2>1 DEF KnowledgeTypeOK
  <2>2. ASSUME NEW c \in Calls, calls[c].step \in {"create", "add"},
               index' = Inserted(calls[c]), table' = TRUE
        PROVE  index' \in [Urls -> Nat] /\ table' \in BOOLEAN /\ table'
    <3>1. calls[c].url \in Urls
      BY <2>2, InvFacts DEF WellFormed, Inserting
    <3>2. PICK o : o = calls[c]
      OBVIOUS
    <3> QED
      BY <2>2, <3>1, <3>2, InsertedFacts
  <2> QED
    BY <2>1, <2>2 DEF Crash
<1>5. store' \in 0 .. Cardinality(Calls) + 1 /\ handle' \in [Stores -> BOOLEAN]
  BY <1>2, Bounds
<1>6. KnowledgeTypeOK'
  BY <1>1, <1>2, <1>3, <1>4, <1>5, IdleWellFormed DEF KnowledgeTypeOK
<1>7. CitedOnce'
  BY <1>1, <1>2, <1>3 DEF CitedOnce, Idle
<1>8. Alone'
  <2> SUFFICES ASSUME ~overlapped' PROVE OneCall' /\ Coherent' /\ \A c \in Calls : Relies(calls[c])'
    BY DEF Alone
  <2>1. Coherent
    BY <1>1, <1>2 DEF Alone
  <2>2. Coherent'
    BY <1>2, <1>4, <2>1 DEF Coherent
  <2>3. Relies(Idle)'
    BY DEF Relies, Idle, Inserting, Holding
  <2> QED
    BY <1>3, <2>2, <2>3 DEF OneCall
<1> QED
  BY <1>6, <1>7, <1>8 DEF KnowledgeInv

LEMMA InitKeeps == Init => KnowledgeInv
<1> SUFFICES ASSUME Init PROVE KnowledgeInv
  OBVIOUS
<1>1. \A c \in Calls : calls[c] = Idle
  BY DEF Init
<1>2. 0 \in 0 .. Cardinality(Calls) + 1
  BY Bounds
<1>3. KnowledgeTypeOK
  BY <1>1, <1>2, IdleWellFormed DEF Init, KnowledgeTypeOK
<1>4. CitedOnce
  BY <1>1 DEF Init, CitedOnce, Idle
<1>5. Relies(Idle)
  BY DEF Relies, Idle, Inserting, Holding
<1>6. Coherent
  BY DEF Init, Coherent
<1>7. Alone
  BY <1>1, <1>5, <1>6 DEF Alone, OneCall
<1> QED
  BY <1>3, <1>4, <1>7 DEF KnowledgeInv

LEMMA StutterKeeps ==
  ASSUME KnowledgeInv, UNCHANGED vars
  PROVE  KnowledgeInv'
<1>1. UNCHANGED <<rows, index, export, table, citations, store, handle, document, calls,
                  overlapped, failed>>
  BY DEF vars, kb, connection
<1> QED
  BY <1>1 DEF KnowledgeInv, KnowledgeTypeOK, CitedOnce, Alone, OneCall, Coherent, Relies,
              Inserting, Stores

LEMMA NextKeeps ==
  ASSUME KnowledgeInv, [Next]_vars
  PROVE  KnowledgeInv'
<1>1. CASE SourceStep
  <2>1. PICK c \in Calls :
          \/ \E u \in Urls : BeginIngest(c, u) \/ BeginDelete(c, u)
          \/ EndFetch(c) \/ Embedded(c) \/ Open(c) \/ Insert(c) \/ FailIngest(c)
          \/ DeleteChunks(c) \/ Unlist(c)
    BY <1>1 DEF SourceStep
  <2> QED
    BY <2>1, BeginIngestKeeps, BeginDeleteKeeps, EndFetchKeeps, EmbeddedKeeps, OpenKeeps,
       InsertKeeps, FailIngestKeeps, DeleteChunksKeeps, UnlistKeeps
<1>2. CASE DocumentStep
  <2>1. PICK c \in Calls :
          \/ \E d \in Documents : BeginDocument(c, d)
          \/ EndQuery(c) \/ FailQuery(c) \/ Search(c) \/ NoResult(c) \/ Audit(c)
          \/ \E u \in Urls : UselessResult(c, u) \/ KnownResult(c, u) \/ NewResult(c, u)
    BY <1>2 DEF DocumentStep
  <2> QED
    BY <2>1, BeginDocumentKeeps, EndQueryKeeps, FailQueryKeeps, SearchKeeps, NoResultKeeps,
       AuditKeeps, UselessResultKeeps, KnownResultKeeps, NewResultKeeps
<1> QED
  BY <1>1, <1>2, CrashKeeps, StutterKeeps DEF Next

-----------------------------------------------------------------------------
(* The theorems *)

\* However many calls overlap, writes fail and the server restarts, the
\* records of the citation pass stay one per line and supported; and as long
\* as no call has met another, the rows, the store and the exports agree up
\* to what the one call in flight is about to write.
THEOREM KnowledgeInvariant == KnowledgeSpec => []KnowledgeInv
<1>1. Init => KnowledgeInv
  BY InitKeeps
<1>2. KnowledgeInv /\ [Next]_vars => KnowledgeInv'
  BY NextKeeps
<1> QED
  BY <1>1, <1>2, PTL DEF KnowledgeSpec

\* acquireSource appends a row only for a url that has none, so a call alone
\* keeps one row per source and, if no write fails, one copy of its chunks,
\* whatever was ingested before, failed, and was tried again.
THEOREM OneRowPerSource == KnowledgeSpec => []Deduplicated
<1>1. KnowledgeInv => Deduplicated
  BY DEF KnowledgeInv, Alone, Coherent, Deduplicated
<1> QED
  BY <1>1, KnowledgeInvariant, PTL

\* The exports suffice to rebuild the store: what retrieval finds, and what
\* a citation rests on, is in chunks.jsonl and has its row, deletions
\* included.
THEOREM ExportsAreComplete == KnowledgeSpec => []RecordComplete
<1>1. KnowledgeInv => RecordComplete
  BY DEF KnowledgeInv, Alone, Coherent, RecordComplete, Known
<1> QED
  BY <1>1, KnowledgeInvariant, PTL

\* No insert of a call alone overwrites the table: only the deletion of a
\* source takes its chunks out of the store, restarts included.
THEOREM OnlyDeletionRemoves == KnowledgeSpec => IndexKept
<1> DEFINE Kept == ~overlapped' => \A u \in Urls : index[u] > 0 /\ index'[u] = 0 =>
                     \E c \in Calls : calls[c].task = "delete" /\ calls[c].url = u
<1>1. KnowledgeInv /\ [Next]_vars => [Kept]_vars
  <2> SUFFICES ASSUME KnowledgeInv, Next, ~overlapped', NEW u \in Urls, index[u] > 0, index'[u] = 0
               PROVE  \E c \in Calls : calls[c].task = "delete" /\ calls[c].url = u
    OBVIOUS
  <2>1. index \in [Urls -> Nat] /\ Alone
    BY DEF KnowledgeInv, KnowledgeTypeOK
  <2>2. index' # index
    BY <2>1
  <2>3. ASSUME NEW c \in Calls, calls[c].step \in {"create", "add"}, index' = Inserted(calls[c]),
               ~overlapped
        PROVE  FALSE
    <3>1. PICK o : o = calls[c]
      OBVIOUS
    <3>2. o.url \in Urls /\ Coherent /\ (o.step = "create" => ~table)
      BY <2>1, <2>3, <3>1, InvFacts DEF Alone, Relies, WellFormed, Inserting
    <3>3. index'[u] = IF u = o.url THEN index[u] + 1 ELSE index[u]
      BY <2>3, <3>1, <3>2, InsertedFacts
    <3> QED
      BY <2>1, <3>3
  <2>4. ASSUME NEW c \in Calls, DeleteChunks(c)
        PROVE  calls[c].task = "delete" /\ calls[c].url = u
    <3>1. calls[c].step = "delete" /\ calls[c].task = "delete"
      BY <2>4, InvFacts DEF DeleteChunks, At, WellFormed, Deleting
    <3>2. index' = [index EXCEPT ![calls[c].url] = 0]
      BY <2>2, <2>4 DEF DeleteChunks
    <3> QED
      BY <2>1, <3>1, <3>2
  <2>5. ASSUME NEW c \in Calls, Insert(c) PROVE FALSE
    BY <2>3, <2>5 DEF Insert
  <2>6. CASE Crash
    BY <2>2, <2>3, <2>6 DEF Crash
  <2>7. CASE SourceStep
    <3>1. PICK c \in Calls :
            \/ \E v \in Urls : BeginIngest(c, v) \/ BeginDelete(c, v)
            \/ EndFetch(c) \/ Embedded(c) \/ Open(c) \/ Insert(c) \/ FailIngest(c)
            \/ DeleteChunks(c) \/ Unlist(c)
      BY <2>7 DEF SourceStep
    <3>2. DeleteChunks(c)
      BY <2>2, <2>5, <3>1 DEF BeginIngest, BeginDelete, EndFetch, Embedded, Open, FailIngest, Unlist, kb
    <3> QED
      BY <2>4, <3>2
  <2>8. CASE DocumentStep
    BY <2>2, <2>8 DEF DocumentStep, BeginDocument, EndQuery, FailQuery, Search, NoResult, Audit,
                      UselessResult, KnownResult, NewResult, kb
  <2> QED
    BY <2>6, <2>7, <2>8 DEF Next
<1> QED
  BY <1>1, KnowledgeInvariant, PTL DEF KnowledgeSpec, IndexKept

\* The owner's loop moves past the documentation only over records: the
\* audit passes when each line that makes a claim has exactly one, with
\* credible support, whatever else went on meanwhile.
THEOREM AuditPassesCited == KnowledgeSpec => PassedIsCited
<1> DEFINE Passes == \A c \in Calls : Audit(c) /\ Uncited = {} =>
             \A l \in document :
               \E r \in citations : /\ r.line = l /\ r.support # {}
                                    /\ \A q \in citations : q.line = l => q = r
<1>1. KnowledgeInv => Passes
  <2> SUFFICES ASSUME KnowledgeInv, Uncited = {}, NEW l \in document
               PROVE  \E r \in citations : /\ r.line = l /\ r.support # {}
                                           /\ \A q \in citations : q.line = l => q = r
    OBVIOUS
  <2>1. PICK r \in citations : r.line = l
    BY DEF Uncited
  <2>2. r.support # {} /\ \A q \in citations : q.line = l => q = r
    BY <2>1 DEF KnowledgeInv, CitedOnce
  <2> QED
    BY <2>1, <2>2
<1>2. KnowledgeInv /\ [Next]_vars => [Passes]_vars
  BY <1>1
<1> QED
  BY <1>2, KnowledgeInvariant, PTL DEF KnowledgeSpec, PassedIsCited

================================================================================

---------------------------- MODULE KnowledgeBase ----------------------------
(***************************************************************************)
(* The knowledge base of one project and the documentation that cites it:  *)
(* runtime/tools/{kb_tools, research_tools}.js over runtime/kb/*.js, and   *)
(* the citation pass of documentProject (ai_os/conversationEngine.js).     *)
(*                                                                         *)
(* A source is recorded in three places: a row of exports/sources.jsonl,   *)
(* by which it is known; its chunks in the vector store, by which it is    *)
(* found; and its chunks in exports/chunks.jsonl.  The row is written      *)
(* before the chunks are embedded, the store before the export; a call     *)
(* waits for the web, the embedding model and the store in between, and    *)
(* other calls run meanwhile.  The connection to the store is opened once  *)
(* per process; a store object without a table creates it, in overwrite    *)
(* mode, at its first insert.                                              *)
(*                                                                         *)
(* A source stands for its url and its chunks for one ingest of it; of a   *)
(* relevance only whether it is below the floor counts; a document is the  *)
(* set of its lines that make a claim.  The budget guard refuses before    *)
(* anything here happens.  The model follows the first document of a       *)
(* project: the audit of a later one counts the records of all of them.    *)
(***************************************************************************)
EXTENDS Naturals, FiniteSets

CONSTANTS
  Calls,         \* calls in flight together
  Urls,
  Credible,      \* the urls scored COMMUNITY or better
  MaxLine,       \* the lines of a document
  SearchCap,     \* DISCOVERY_MAX_TOTAL_SEARCHES
  MaxCopies,     \* bound on the copies of a source's chunks in the store
  BrokenRemovals, \* bound: how many removals a deletion that fails has made
  Faults         \* {} or a subset of {"io", "crash"}

ASSUME KnowledgeAssumption ==
  /\ Credible \subseteq Urls
  /\ {MaxLine, SearchCap, MaxCopies} \subseteq Nat
  /\ BrokenRemovals \subseteq 0 .. 2
  /\ IsFiniteSet(Calls)

VARIABLES
  rows,        \* per url: its rows in sources.jsonl
  index,       \* per url: the copies of its chunks in the store
  export,      \* per url: the copies of its chunks in chunks.jsonl
  table,       \* whether the store has its table
  store,       \* the cached connection (0: none)
  handle,      \* per store object: whether it has opened the table
  citations,   \* citations.jsonl
  document,    \* documentation.json
  calls,       \* calls in flight
  overlapped,  \* history: two calls have been in flight together
  failed       \* history: a write to the store, its export or the rows has
               \* failed, or the server has died

kb == <<rows, index, export, table, citations>>
connection == <<store, handle>>
vars == <<kb, connection, document, calls, overlapped, failed>>

\* What the claim detector may find in a document.
Documents == (SUBSET (1 .. MaxLine)) \ {{}}

Stores == 1 .. Cardinality(Calls) + 1

\* lines: the claims still to be cited, the current one included; tried: it
\* has had its discovery; kept: what is cited if that finds nothing better
\* (for a deletion: whose chunks were listed when it began).
Idle == [task |-> "none", step |-> "idle", then |-> "idle", url |-> "none",
         store |-> 0, lines |-> {}, tried |-> FALSE,
         kept |-> {}, searches |-> 0, seen |-> {}]

At(c, step) == calls[c].step = step
Reply(c) == calls' = [calls EXCEPT ![c] = Idle]
\* A call forgets the store it has used and the url it has ingested.
GoTo(c, call, step) ==
  calls' = [calls EXCEPT ![c] = [call EXCEPT
    !.step  = step,
    !.then  = IF step = "open" THEN @ ELSE "idle",
    !.store = IF step \in {"create", "add", "search", "delete"} THEN @ ELSE 0,
    !.url   = IF step \in {"query", "audit"} THEN "none" ELSE @]]

Start ==
  overlapped' = (overlapped \/ \E d \in Calls : calls[d] # Idle)

-----------------------------------------------------------------------------
(* The store (storage_lance.js) *)

\* Mutant of TableThere: the connection does not look for a table.
TableUnseen == FALSE

TableThere == table

\* insertChunks decides when it is called.
StepWith(opened, then) ==
  IF then # "insert" THEN then ELSE IF opened THEN "add" ELSE "create"

FreshStore == CHOOSE s \in Stores :
                s \notin {store} \cup {calls[c].store : c \in Calls}

\* openStore, then the operation it is opened for: at once over the cached
\* connection.
Connect(c, call, then) ==
  IF store = 0
    THEN GoTo(c, [call EXCEPT !.then = then], "open")
    ELSE GoTo(c, [call EXCEPT !.store = store], StepWith(handle[store], then))

Open(c) ==
  /\ At(c, "open")
  /\ store' = FreshStore
  /\ handle' = [handle EXCEPT ![FreshStore] = TableThere]
  /\ GoTo(c, [calls[c] EXCEPT !.store = FreshStore],
          StepWith(TableThere, calls[c].then))
  /\ UNCHANGED <<kb, document, overlapped, failed>>

\* What an insert leaves in the store.
Inserted(call) ==
  IF call.step = "create" THEN [u \in Urls |-> IF u = call.url THEN 1 ELSE 0]
                          ELSE [index EXCEPT ![call.url] = @ + 1]

-----------------------------------------------------------------------------
(* Sources *)

\* Mutant of Known: a source is known once it can be found.
Found(u) == index[u] > 0

\* The dedup check, by the rows of sources.jsonl.
Known(u) == rows[u] > 0

AppendRow(u) == rows' = [rows EXCEPT ![u] = @ + 1]

\* kb.ingest_url and research.fetch_url: a known source is only reported.
BeginIngest(c, u) ==
  /\ calls[c] = Idle /\ ~Known(u)
  /\ Start
  /\ GoTo(c, [Idle EXCEPT !.task = "ingest", !.url = u], "fetch")
  /\ UNCHANGED <<kb, connection, document, failed>>

\* acquireSource after the fetch: rejected, or appended and embedded.  It
\* ends with the row for fetch_url, for a text without chunks, and when the
\* write of the source's own file fails.
EndFetch(c) ==
  /\ At(c, "fetch")
  /\ \/ Reply(c) /\ UNCHANGED rows
     \/ AppendRow(calls[c].url)
        /\ (Reply(c) \/ GoTo(c, calls[c], "embed"))
  /\ UNCHANGED <<index, export, table, citations, connection, document, overlapped, failed>>

\* embedChunks
Embedded(c) ==
  /\ At(c, "embed")
  /\ Connect(c, calls[c], "insert")
  /\ UNCHANGED <<kb, connection, document, overlapped, failed>>

-----------------------------------------------------------------------------
(* The citation pass *)

Current(call) == CHOOSE l \in call.lines : \A m \in call.lines : l <= m

\* Mutant of Citable: a claim is cited whatever is left to support it.
AlwaysCitable(found) == TRUE

\* synthesizeCitation blocks a record without eligible support.
Citable(found) == found \cap Credible # {}

Record(call, found) == [line |-> Current(call), support |-> found \cap Credible]

Discovering(call, kept) ==
  [call EXCEPT !.tried = TRUE, !.kept = kept, !.searches = @ + 1]

\* The next claim, or the audit.
NextClaim(c, call) ==
  LET rest == call.lines \ {Current(call)} IN
  GoTo(c, [call EXCEPT !.lines = rest, !.tried = FALSE, !.kept = {}],
       IF rest = {} THEN "audit" ELSE "query")

\* One kb.cite per claim, on the chosen chunks; a claim without any stays
\* uncited.  If the record cannot be written, the claim's discovery is tried,
\* unless it has had it.
Cite(c, call, found) ==
  \/ /\ citations' = IF Citable(found) THEN citations \cup {Record(call, found)}
                                       ELSE citations
     /\ NextClaim(c, call)
  \/ /\ "io" \in Faults /\ Citable(found)
     /\ IF ~call.tried /\ call.searches < SearchCap
          THEN GoTo(c, Discovering(call, {}), "web")
          ELSE NextClaim(c, call)
     /\ UNCHANGED citations

\* Discovery has brought nothing new: the claim without chunks is looked up
\* again all the same, the one below the floor is cited as it was.
Unlifted(c, call) ==
  IF call.kept = {} THEN GoTo(c, call, "query") /\ UNCHANGED citations
                    ELSE Cite(c, call, call.kept)

\* documentProject, when the role has answered: documentation.json is
\* written, and read back for its claims.
BeginDocument(c, d) ==
  /\ calls[c] = Idle /\ document = {}
  /\ Start
  /\ document' = d
  /\ GoTo(c, [Idle EXCEPT !.task = "document", !.lines = d], "query")
  /\ UNCHANGED <<kb, connection, failed>>

\* kb.retrieve: the query is embedded, then searched for.
EndQuery(c) ==
  /\ At(c, "query")
  /\ Connect(c, calls[c], "search")
  /\ UNCHANGED <<kb, connection, document, overlapped, failed>>

\* retrieve fails: the claim stays uncited, or as it was cited before.
FailQuery(c) ==
  /\ calls[c].step \in {"query", "search"}
  /\ Cite(c, calls[c], calls[c].kept)
  /\ UNCHANGED <<rows, index, export, table, connection, document, overlapped, failed>>

\* Chunks of a source that has no row, or a poor score, are filtered out.
Searchable(call) ==
  {u \in Credible : handle[call.store] /\ index[u] > 0 /\ Known(u)}

\* A claim with no chunks, or with none above the floor, has one discovery,
\* within the cap of the run.
Search(c) ==
  LET call == calls[c] IN
  /\ At(c, "search")
  /\ \E found \in SUBSET Searchable(call), above \in BOOLEAN :
       LET weak == found = {} \/ ~above IN
       IF weak /\ ~call.tried /\ call.searches < SearchCap
         THEN GoTo(c, Discovering(call, found), "web") /\ UNCHANGED citations
         ELSE Cite(c, call, IF weak /\ call.kept # {} THEN call.kept ELSE found)
  /\ UNCHANGED <<rows, index, export, table, connection, document, overlapped, failed>>

\* research.search_web has no result: the claim stays as it is.
NoResult(c) ==
  /\ At(c, "web")
  /\ Cite(c, calls[c], calls[c].kept)
  /\ UNCHANGED <<rows, index, export, table, connection, document, overlapped, failed>>

\* Its first result has been tried in this run, has no text or is refused.
UselessResult(c, u) ==
  /\ At(c, "web")
  /\ Unlifted(c, [calls[c] EXCEPT !.seen = @ \cup {u}])
  /\ UNCHANGED <<rows, index, export, table, connection, document, overlapped, failed>>

\* kb.ingest_content of a known source succeeds as a duplicate.
KnownResult(c, u) ==
  /\ At(c, "web") /\ u \notin calls[c].seen /\ Known(u)
  /\ GoTo(c, [calls[c] EXCEPT !.seen = @ \cup {u}], "query")
  /\ UNCHANGED <<kb, connection, document, overlapped, failed>>

\* acquireSourceFromContent
NewResult(c, u) ==
  /\ At(c, "web") /\ u \notin calls[c].seen /\ ~Known(u)
  /\ AppendRow(u)
  /\ GoTo(c, [calls[c] EXCEPT !.seen = @ \cup {u}, !.url = u], "embed")
  /\ UNCHANGED <<index, export, table, citations, connection, document, overlapped, failed>>

-----------------------------------------------------------------------------
(* The end of an ingest, of a tool call or of a discovery *)

\* The chunks are in the store; they are appended to the export, unless an
\* append fails.
Insert(c) == \E appended \in BOOLEAN :
  LET call == calls[c] IN
  /\ appended \/ "io" \in Faults
  /\ call.step \in {"create", "add"}
  /\ index[call.url] < MaxCopies
  /\ index' = Inserted(call)
  /\ table' = TRUE
  /\ handle' = [handle EXCEPT ![call.store] = TRUE]
  /\ export' = IF appended THEN [export EXCEPT ![call.url] = @ + 1] ELSE export
  /\ failed' = (failed \/ ~appended)
  /\ IF call.task = "ingest" THEN Reply(c) /\ UNCHANGED citations
     ELSE IF appended THEN GoTo(c, call, "query") /\ UNCHANGED citations
     ELSE Unlifted(c, call)
  /\ UNCHANGED <<rows, store, document, overlapped>>

\* The embedding or the insert fails; the row stays.
FailIngest(c) ==
  /\ calls[c].step \in {"embed", "create", "add"}
  /\ IF calls[c].task = "ingest" THEN Reply(c) /\ UNCHANGED citations
                                 ELSE Unlifted(c, calls[c])
  /\ UNCHANGED <<rows, index, export, table, connection, document, overlapped, failed>>

-----------------------------------------------------------------------------
(* The audit *)

\* kb.validate_citations: a line is cited if some record names its number.
Uncited == {l \in document : \A r \in citations : r.line # l}

\* The loop moves if nothing is uncited, or if the owner overrides.
Audit(c) ==
  /\ At(c, "audit")
  /\ Reply(c)
  /\ UNCHANGED <<kb, connection, document, overlapped, failed>>

-----------------------------------------------------------------------------
(* kb.delete_source *)

\* Mutant of Listed: the chunks are listed when they are gone.
ListedLate(u) == {}

\* readChunks, before anything is deleted.
Listed(u) == IF export[u] > 0 THEN {u} ELSE {}

BeginDelete(c, u) ==
  /\ calls[c] = Idle
  /\ Start
  /\ Connect(c, [Idle EXCEPT !.task = "delete", !.url = u, !.kept = Listed(u)], "delete")
  /\ UNCHANGED <<kb, connection, document, failed>>

\* deleteBySource; its failure is swallowed.
DeleteChunks(c) == \E deleted \in BOOLEAN :
  /\ deleted \/ "io" \in Faults
  /\ At(c, "delete")
  /\ index' = IF deleted /\ handle[calls[c].store]
              THEN [index EXCEPT ![calls[c].url] = 0] ELSE index
  /\ failed' = (failed \/ ~deleted)
  /\ GoTo(c, calls[c], "unlist")
  /\ UNCHANGED <<rows, export, table, citations, connection, document, overlapped>>

\* removeSource, removeChunks and removeCitationsByChunks, in this order: one
\* that fails throws, and leaves out those after it.
Unlist(c) == \E removals \in {3} \cup IF "io" \in Faults THEN BrokenRemovals ELSE {} :
  LET call == calls[c] IN
  /\ At(c, "unlist")
  /\ rows' = IF removals = 0 THEN rows ELSE [rows EXCEPT ![call.url] = 0]
  /\ export' = IF removals < 2 THEN export ELSE [export EXCEPT ![call.url] = 0]
  /\ citations' = IF removals < 3 THEN citations
                  ELSE {r \in citations : r.support \cap call.kept = {}}
  /\ failed' = (failed \/ removals < 3)
  /\ Reply(c)
  /\ UNCHANGED <<index, table, connection, document, overlapped>>

-----------------------------------------------------------------------------
\* The server dies; an insert under way may have reached the store.
Crash ==
  /\ "crash" \in Faults
  /\ \E c \in Calls : calls[c] # Idle
  /\ \/ UNCHANGED <<index, table>>
     \/ \E c \in Calls : /\ calls[c].step \in {"create", "add"}
                         /\ index[calls[c].url] < MaxCopies
                         /\ index' = Inserted(calls[c]) /\ table' = TRUE
  /\ calls' = [c \in Calls |-> Idle]
  /\ store' = 0 /\ handle' = [s \in Stores |-> FALSE]
  /\ failed' = TRUE
  /\ UNCHANGED <<rows, export, citations, document, overlapped>>

Init ==
  /\ rows = [u \in Urls |-> 0] /\ index = rows /\ export = rows
  /\ table = FALSE /\ store = 0 /\ handle = [s \in Stores |-> FALSE]
  /\ citations = {} /\ document = {}
  /\ calls = [c \in Calls |-> Idle]
  /\ overlapped = FALSE /\ failed = FALSE

SourceStep == \E c \in Calls :
  \/ \E u \in Urls : BeginIngest(c, u) \/ BeginDelete(c, u)
  \/ EndFetch(c) \/ Embedded(c) \/ Open(c) \/ Insert(c) \/ FailIngest(c)
  \/ DeleteChunks(c) \/ Unlist(c)

DocumentStep == \E c \in Calls :
  \/ \E d \in Documents : BeginDocument(c, d)
  \/ EndQuery(c) \/ FailQuery(c) \/ Search(c) \/ NoResult(c) \/ Audit(c)
  \/ \E u \in Urls : UselessResult(c, u) \/ KnownResult(c, u) \/ NewResult(c, u)

Next == SourceStep \/ DocumentStep \/ Crash

KnowledgeSpec == Init /\ [][Next]_vars

-----------------------------------------------------------------------------
(* Properties *)

\* A url has one row, however often its ingest failed and was tried again,
\* and, unless a write failed, one copy of its chunks in the store: as long
\* as calls do not overlap, because the fetch separates check and append.
Deduplicated ==
  ~overlapped => \A u \in Urls : /\ rows[u] <= 1
                                 /\ ~failed => index[u] <= 1

\* As long as calls do not overlap, nothing but its deletion takes a source
\* out of the store: no insert, after a restart or a failed one, creates the
\* table over the chunks of the others.
IndexKept ==
  [][~overlapped' => \A u \in Urls : index[u] > 0 /\ index'[u] = 0 =>
       \E c \in Calls : calls[c].task = "delete" /\ calls[c].url = u]_vars

\* "A fresh store can always be rebuilt from the JSONL exports": what can be
\* found is in chunks.jsonl under a known source, and so is what supports
\* a citation, deletions included, unless calls overlap or a write fails.
RecordComplete ==
  ~overlapped /\ ~failed =>
    /\ \A u \in Urls : index[u] > 0 => export[u] > 0 /\ Known(u)
    /\ \A r \in citations : \A u \in r.support : export[u] > 0 /\ Known(u)

\* The audit passes the document only if each claim has one record with
\* credible support, whatever is ingested and deleted while it is cited, and
\* whatever fails.
PassedIsCited ==
  [][\A c \in Calls : Audit(c) /\ Uncited = {} =>
       \A l \in document :
         \E r \in citations : /\ r.line = l /\ r.support # {}
                              /\ \A q \in citations : q.line = l => q = r]_vars
=============================================================================

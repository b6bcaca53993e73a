----------------------------- MODULE RepoIngest -----------------------------
(***************************************************************************)
(* A file of a repository in the knowledge store                           *)
(* (infrastructure/repo_ingestion/ingester): its content is cut into       *)
(* chunks of whole lines, each chunk an indexed document named by the file *)
(* and the chunk's number.  A run of the ingester indexes them one after   *)
(* the other; the file changes between runs, and during them.              *)
(***************************************************************************)
EXTENDS Integers, Sequences, FiniteSets, SequencesExt

CONSTANTS
    LineSizes,      \* the characters of a line, its newline included
    MaxLines,
    MaxChunkSize,
    Overlaps,       \* what overlap_lines is configured to be
    MaxFileSize,    \* a file with more is refused
    MaxEdits        \* bound on changes of the file

ASSUME IngestAssumption ==
    /\ LineSizes \subseteq Nat /\ Overlaps \subseteq Nat
    /\ {MaxLines, MaxChunkSize, MaxFileSize, MaxEdits} \subseteq Nat

VARIABLES
    overlap,        \* overlap_lines
    source,         \* the file: its revision, and the size of each line; removed has none
    documents,      \* the store: per chunk number the revision, the lines and the total, or none
    ingest,         \* the run: whether it is under way, the revision it read, the chunks left
    ended,          \* history: the revision and the number of chunks of the last run without error
    disturbed       \* history: a run failed since that one, after it had indexed a chunk

ingestVars == <<overlap, source, documents, ingest, ended, disturbed>>

\* The characters of some lines of a content, and of all of it.
SizeOf(lines, content) ==
    LET size[i \in 0..Len(lines)] == IF i = 0 THEN 0 ELSE size[i - 1] + content[lines[i]]
    IN size[Len(lines)]
AllOf(content) == [i \in DOMAIN content |-> i]
Numbers == 0..(MaxLines - 1)
NoDocument == [rev |-> 0, lines |-> <<>>, total |-> 0]

\* The last n lines of a chunk, all of it for n = 0: Python's chunk[-0:].
Tail0(lines) == IF overlap = 0 \/ overlap >= Len(lines) THEN lines
                ELSE SubSeq(lines, Len(lines) - overlap + 1, Len(lines))

\* Mutant: the line that does not fit is left out of the chunk that follows.
AddSkipping(content, chunking, n) ==
    IF SizeOf(Append(chunking.current, n), content) > MaxChunkSize /\ chunking.current # <<>>
    THEN [done |-> Append(chunking.done, chunking.current), current |-> Tail0(chunking.current)]
    ELSE [chunking EXCEPT !.current = Append(@, n)]
\* A line that does not fit closes the chunk, and starts the next one with the overlap.
AddLine(content, chunking, n) ==
    IF SizeOf(Append(chunking.current, n), content) > MaxChunkSize /\ chunking.current # <<>>
    THEN [done |-> Append(chunking.done, chunking.current),
          current |-> Append(Tail0(chunking.current), n)]
    ELSE [chunking EXCEPT !.current = Append(@, n)]

\* The loop of _chunk_content, after each line.
CutUpTo(content) ==
    LET cut[n \in 0..Len(content)] ==
            IF n = 0 THEN [done |-> <<>>, current |-> <<>>] ELSE AddLine(content, cut[n - 1], n)
    IN cut

\* _chunk_content: the lines of each chunk.  The last newline does not count.
Chunks(content) ==
    LET last == CutUpTo(content)[Len(content)] IN
    IF SizeOf(AllOf(content), content) - 1 <= MaxChunkSize THEN <<AllOf(content)>>
    ELSE Append(last.done, last.current)

Contents == UNION {[1..n -> LineSizes] : n \in 1..MaxLines}

IngestInit ==
    /\ overlap \in Overlaps
    /\ source \in [rev : {1}, lines : Contents]
    /\ documents = [k \in Numbers |-> NoDocument]
    /\ ingest = [on |-> FALSE, rev |-> 0, total |-> 0, left |-> <<>>]
    /\ ended = [rev |-> 0, total |-> 0] /\ disturbed = FALSE

\* The file is changed, or removed.
EditFile(lines) ==
    /\ source.rev <= MaxEdits /\ source' = [rev |-> source.rev + 1, lines |-> lines]
    /\ UNCHANGED <<overlap, documents, ingest, ended, disturbed>>

Accepted(content) == SizeOf(AllOf(content), content) <= MaxFileSize

\* ingest_file reads a file that is there and not too large; the run goes on without any other.
StartFile ==
    /\ ~ingest.on /\ source.lines # <<>> /\ Accepted(source.lines)
    /\ ingest' = [on |-> TRUE, rev |-> source.rev, total |-> Len(Chunks(source.lines)), left |-> Chunks(source.lines)]
    /\ UNCHANGED <<overlap, source, documents, ended, disturbed>>

Number == ingest.total - Len(ingest.left)

\* index_document: the document of that name is replaced.
Put(k, document) == [documents EXCEPT ![k] = document]

IndexChunk ==
    /\ ingest.on /\ ingest.left # <<>>
    /\ documents' = Put(Number, [rev |-> ingest.rev, lines |-> Head(ingest.left), total |-> ingest.total])
    /\ ingest' = [ingest EXCEPT !.left = Tail(@)]
    /\ UNCHANGED <<overlap, source, ended, disturbed>>

\* An error ends the file: the documents indexed before it stay.
IndexFails ==
    /\ ingest.on /\ ingest.left # <<>> /\ ingest' = [ingest EXCEPT !.on = FALSE]
    /\ disturbed' = (disturbed \/ Number > 0)
    /\ UNCHANGED <<overlap, source, documents, ended>>

EndFile ==
    /\ ingest.on /\ ingest.left = <<>> /\ ingest' = [ingest EXCEPT !.on = FALSE]
    /\ ended' = [rev |-> ingest.rev, total |-> ingest.total] /\ disturbed' = FALSE
    /\ UNCHANGED <<overlap, source, documents>>

IngestNext ==
    \/ \E lines \in Contents \cup {<<>>} : EditFile(lines)
    \/ StartFile \/ IndexChunk \/ IndexFails \/ EndFile

----------------------------------------------------------------------------
(* Properties. *)

IngestTypeOK ==
    /\ DOMAIN documents = Numbers /\ source.rev \in 1..(MaxEdits + 1)
    /\ ended.total \in 0..MaxLines /\ Len(ingest.left) <= ingest.total

UpToDate == ~ingest.on /\ ended.rev # 0 /\ ~disturbed
Current == {k \in Numbers : k < ended.total}

\* After a run without error, the documents it named are the whole of the file as it was read:
\* from the first line to the last, each chunk going on where the one before stops or earlier.
NothingLost == UpToDate /\ ended.rev = source.rev =>
    LET chunk(k) == documents[k].lines IN
    /\ \A k \in Current : documents[k].rev = ended.rev /\ chunk(k) # <<>>
    /\ chunk(0)[1] = 1 /\ Last(chunk(ended.total - 1)) = Len(source.lines)
    /\ \A k \in Current \ {0} : chunk(k)[1] <= Last(chunk(k - 1)) + 1
    /\ \A k \in Current : \A i \in 2..Len(chunk(k)) : chunk(k)[i] = chunk(k)[i - 1] + 1

\* A chunk is longer than the limit only by its last line after the overlap: with an overlap of
\* 0, which the configuration accepts, every chunk starts with the first line.
ChunksBounded == overlap # 0 /\ ingest.on /\ ingest.rev = source.rev =>
    \A k \in DOMAIN ingest.left :
        SizeOf(ingest.left[k], source.lines) - 1 > MaxChunkSize => Len(ingest.left[k]) <= overlap + 1

\* What a run without error leaves of older revisions is beyond its own chunks: documents of a
\* file that was longer, or the file's own when it is removed, which nothing deletes.
OlderAreBeyond == UpToDate => \A k \in Numbers : documents[k].rev \notin {0, ended.rev} => k >= ended.total

------------------------------------------------------------------------------
(***************************************************************************)
(* The context packs of the repository mapper (workers/repo_mapper): the   *)
(* files are parsed one after the other, in whatever order they are found, *)
(* into a graph of their imports (dependency_graph); a pack takes, within  *)
(* a budget, the files that matter to a task (context_builder).            *)
(***************************************************************************)

CONSTANTS
    SourceFiles,
    TokensOf,       \* the tokens of each file
    Budget,         \* of a pack
    MaxDepth        \* of get_dependencies

ASSUME ContextAssumption ==
    /\ IsFiniteSet(SourceFiles) /\ TokensOf \in [SourceFiles -> Nat] /\ Budget \in Nat /\ MaxDepth \in Nat \ {0}

VARIABLES
    context,        \* ASTContext: per file what it imports, and the order of parsing
    pack            \* what a pack was asked for, and its files; none before

contextVars == <<context, pack>>

NoPack == [targets |-> {}, mentioned |-> {}, chosen |-> <<>>]
Imports == {imports \in [SourceFiles -> SUBSET SourceFiles] : \A f \in SourceFiles : f \notin imports[f]}

ContextInit == context \in [imports : Imports, order : {<<>>}] /\ pack = NoPack

Place(f) == CHOOSE i \in DOMAIN context.order : context.order[i] = f

\* add_file: an import is resolved among the files parsed so far, when the files are parsed and
\* once more, in the same order, when they are added to the graph of a pack.
KnownImports(f) == {g \in context.imports[f] : Place(g) <= Place(f)}

Queued(queue, more) == queue \o more

\* get_dependencies: the files reached from f and their depths, breadth first; a file may be in
\* the queue more than once.  Each file is expanded once, and queues no more than there are.
Expanded(f, d, visited) ==
    IF d < MaxDepth THEN SetToSeq({[file |-> g, depth |-> d + 1] : g \in KnownImports(f) \ visited}) ELSE <<>>

Turn(search) ==
    LET first == Head(search.queue) IN
    IF search.queue = <<>> THEN search
    ELSE IF first.file \in search.visited THEN [search EXCEPT !.queue = Tail(@)]
    ELSE [queue |-> Queued(Tail(search.queue), Expanded(first.file, first.depth, search.visited)),
          visited |-> search.visited \cup {first.file},
          depth |-> [search.depth EXCEPT ![first.file] = first.depth]]

Turns == Cardinality(SourceFiles) * Cardinality(SourceFiles) + 1
Search(f) ==
    LET after[n \in 0..Turns] ==
            IF n = 0 THEN [queue |-> <<[file |-> f, depth |-> 0]>>, visited |-> {}, depth |-> [g \in SourceFiles |-> 0]]
            ELSE Turn(after[n - 1])
    IN after

Dependencies(f) ==
    LET search == Search(f)[Turns] IN {[file |-> g, depth |-> search.depth[g]] : g \in search.visited \ {f}}

\* score_file_relevance, in tenths: targets, files with a symbol the task names, direct imports
\* of a target.
Relevance(targets, mentioned, f) ==
    IF f \in targets THEN 10 ELSE IF f \in mentioned THEN 8
    ELSE IF \E t \in targets : [file |-> f, depth |-> 1] \in Dependencies(t) THEN 4 ELSE 0

\* The tokens of the files that are among some.
TokensIn(files, among) ==
    LET tokens[i \in 0..Len(files)] ==
            IF i = 0 THEN 0 ELSE tokens[i - 1] + (IF files[i] \in among THEN TokensOf[files[i]] ELSE 0)
    IN tokens[Len(files)]
HasRoom(f, chosen) == TokensIn(chosen, SourceFiles) + TokensOf[f] <= Budget

\* select_relevant_files: by relevance, then in the order of parsing, each file that fits.
Taken(chosen, targets, mentioned, score) ==
    LET taken[i \in 0..Len(context.order)] ==
            IF i = 0 THEN chosen
            ELSE IF Relevance(targets, mentioned, context.order[i]) = score /\ HasRoom(context.order[i], taken[i - 1])
            THEN Append(taken[i - 1], context.order[i]) ELSE taken[i - 1]
    IN taken
Scored(chosen, targets, mentioned, score) == Taken(chosen, targets, mentioned, score)[Len(context.order)]
Selected(targets, mentioned) ==
    Scored(Scored(Scored(<<>>, targets, mentioned, 10), targets, mentioned, 8), targets, mentioned, 4)

\* _build_ast_context: the files are found in any order.
ParseAll ==
    /\ context.order = <<>>
    /\ \E order \in SetToSeqs(SourceFiles) : context' = [context EXCEPT !.order = order]
    /\ UNCHANGED pack

\* generate_context_pack, once.
Generate(targets, mentioned) ==
    /\ context.order # <<>> /\ pack = NoPack
    /\ pack' = [targets |-> targets, mentioned |-> mentioned, chosen |-> Selected(targets, mentioned)]
    /\ UNCHANGED context

ContextNext ==
    \/ ParseAll
    \/ \E targets, mentioned \in SUBSET SourceFiles : Generate(targets, mentioned)

----------------------------------------------------------------------------
(* Properties. *)

\* The files within n imports of f, by the definition.
Within(f, n) ==
    LET reach[k \in 0..n] == IF k = 0 THEN {f} ELSE reach[k - 1] \cup UNION {KnownImports(g) : g \in reach[k - 1]}
    IN reach

\* The dependencies of a file are those that a chain of imports reaches, each at the length of
\* the shortest.
DependenciesAreNearest == context.order # <<>> => \A f \in SourceFiles :
    LET reach == Within(f, MaxDepth) IN
    Dependencies(f) =
        UNION {{[file |-> g, depth |-> k] : g \in reach[k] \ reach[k - 1]} : k \in 1..MaxDepth}

Chosen == ToSet(pack.chosen)
RoomLeft == Budget - TokensIn(pack.chosen, SourceFiles)

\* A pack is within its budget, and no other file takes the place of a target: a target is left
\* out only if the targets in the pack leave no room for it.
TargetsComeFirst ==
    /\ TokensIn(pack.chosen, SourceFiles) <= Budget
    /\ \A t \in pack.targets \ Chosen : TokensIn(pack.chosen, pack.targets) + TokensOf[t] > Budget

\* A file that a target imports is in the pack if there is room for it, unless it was parsed after
\* the target: then the graph does not have the import.
ImportsAreKnown ==
    \A t \in pack.targets, f \in SourceFiles \ Chosen :
        f \in context.imports[t] /\ Place(f) <= Place(t) => TokensOf[f] > RoomLeft
=============================================================================

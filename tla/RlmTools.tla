------------------------------ MODULE RlmTools -------------------------------
(***************************************************************************)
(* What an RLM agent's tool calls tell it of a repository that is edited   *)
(* meanwhile (workers/rlm: agent, tools/registry, tools/file_tools,        *)
(* tools/symbol_tools; workers/repo_mapper/parsers/python_parser).         *)
(* A text is a sequence of lines, ended by newlines: definitions, imports  *)
(* and feeds.  A feed (a form feed alone on its line) is one line to the   *)
(* Python parser, which counts newlines, and two to str.splitlines.        *)
(***************************************************************************)
EXTENDS Naturals, Sequences, FiniteSets, SequencesExt, FiniteSetsExt

CONSTANTS
    Texts,          \* sequences of lines [sort, name, owner]: owner is the class's line, or 0
    SoughtNames,    \* names the agent looks for
    MaxToolSteps,   \* bound: tool calls of an iteration
    MaxModuleEdits        \* bound: edits of the module while the agent works

ASSUME ToolsAssumption == \A lines \in Texts : lines \in Seq(Range(lines))

\* The paths the agent names: a Python module, notes that no parser takes, a file that is
\* not there and one outside the root.
ToolPaths == {"module", "notes", "missing", "outside"}
RepoFiles == {"module", "notes"}
NotesText == <<[sort |-> "text", name |-> CHOOSE k \in SoughtNames : TRUE, owner |-> 0]>>

Registered == {"list_files", "read_file", "grep", "file_exists", "get_file_info", "extract_symbols",
    "parse_ast", "find_symbol", "find_symbols_by_kind", "get_function_signature", "get_imports"}

VARIABLES
    moduleText,     \* [lines, ended, state]: state is valid, syntax (a SyntaxError), bytes (not UTF-8)
    allowedTools,   \* REPLToolSurface.allowed_tools, all registered ones where it is None
    executed,          \* executed_calls of the iteration, with the module as each found it
    toolLog,        \* REPLToolSurface._invocations: whether each succeeded
    raised,         \* an entry of the list was no call
    edits

toolVars == <<moduleText, allowedTools, executed, toolLog, raised, edits>>

ModuleTexts ==
    { m \in [lines : Texts, ended : BOOLEAN, state : {"valid", "syntax", "bytes"}] :
        m.ended \/ (m.lines # <<>> /\ Last(m.lines).sort # "feed") }

ToolInit ==
    /\ moduleText \in ModuleTexts
    /\ allowedTools \in {Registered, {"read_file", "grep"}}
    /\ executed = <<>> /\ toolLog = <<>> /\ raised = FALSE /\ edits = 0

----------------------------------------------------------------------------
(* Texts as the tools see them. *)

\* What of a sequence is in a set, in its order.
Among(s, S) ==
    LET kept[i \in 0..Len(s)] ==
            IF i = 0 THEN <<>> ELSE IF s[i] \in S THEN Append(kept[i - 1], s[i]) ELSE kept[i - 1]
    IN kept[Len(s)]

TextAt(p) == IF p = "module" THEN moduleText.lines ELSE NotesText

\* str.splitlines: the index of each piece's line.
PiecesOf(lines) ==
    FlattenSeq([i \in DOMAIN lines |-> IF lines[i].sort = "feed" THEN <<i, i>> ELSE <<i>>])

\* get_file_info counts newlines; the parser adds one to splitlines' count where the last
\* line has no newline.
InfoCount(lines) == Len(lines)
ParsedCount == Len(PiecesOf(moduleText.lines)) + (IF moduleText.ended THEN 0 ELSE 1)

NamedAs(lines, i, kind) == [name |-> lines[i].name, kind |-> kind, line |-> i]
MethodsOf(lines, i) ==
    Among([j \in DOMAIN lines |-> j], { j \in DOMAIN lines : lines[j].sort = "def" /\ lines[j].owner = i })

\* What the walk takes at a line: a function, or a class followed by its methods; nothing of
\* a coroutine (AsyncFunctionDef).
SymbolsAt(lines, i) ==
    IF lines[i].sort = "def" THEN <<NamedAs(lines, i, "function")>>
    ELSE IF lines[i].sort = "class"
    THEN LET methods == MethodsOf(lines, i) IN
         <<NamedAs(lines, i, "class")>>
         \o [j \in DOMAIN methods |-> NamedAs(lines, methods[j], "method")]
    ELSE <<>>

\* ast.walk goes breadth first: after the first level, methods come again, as functions.
WalkLevel(lines, at) == FlattenSeq([i \in DOMAIN lines |-> IF i \in at THEN SymbolsAt(lines, i) ELSE <<>>])
Outermost(lines) == { i \in DOMAIN lines : lines[i].owner = 0 }
PythonSymbols(lines) == WalkLevel(lines, Outermost(lines)) \o WalkLevel(lines, DOMAIN lines \ Outermost(lines))

ImportsOf(lines) == { i \in DOMAIN lines : lines[i].sort = "import" }

----------------------------------------------------------------------------
(* The tools: what they return, or Raises. *)

Raises == [ok |-> FALSE, value |-> <<>>]
Returns(what) == [ok |-> TRUE, value |-> what]
IsFile(p) == p \in RepoFiles
FileExists(p) == Returns(IsFile(p))

\* The first result is appended before the limit is compared.
ListedCount(max) == Min({Max({max, 1}), Cardinality(RepoFiles)})

\* Cut short, they are those the walk met first, unsorted.
ListFiles(max) == kSubset(ListedCount(max), RepoFiles)

LineRange(pieces, from, upto) == SubSeq(pieces, from, upto)

\* 0 stands for a bound that is not given.
ReadText(p, from, upto) ==
    IF ~IsFile(p) THEN Raises
    ELSE LET pieces == PiecesOf(TextAt(p)) IN
         Returns(LineRange(pieces, Max({from, 1}),
                          IF upto = 0 THEN Len(pieces) ELSE Min({upto, Len(pieces)})))

\* The pieces of a text with their numbers.
NumberedLines(p) ==
    LET pieces == PiecesOf(TextAt(p)) IN [i \in DOMAIN pieces |-> [path |-> p, number |-> i, line |-> pieces[i]]]
Matches(p, name) ==
    Among(NumberedLines(p),
          { m \in Range(NumberedLines(p)) : TextAt(p)[m.line].sort # "feed" /\ TextAt(p)[m.line].name = name })

FirstMatches(found, max) == SubSeq(found, 1, Min({max, Len(found)}))

\* A directory is all its files: one that is named as well is searched twice.  What is
\* neither is skipped.
Grep(name, paths, max) ==
    IF "outside" \in Range(paths) THEN Raises
    ELSE Returns(FirstMatches(FlattenSeq([i \in DOMAIN paths |->
             IF paths[i] = "." THEN Matches("module", name) \o Matches("notes", name)
             ELSE IF IsFile(paths[i]) THEN Matches(paths[i], name) ELSE <<>>]), max))

FileInfo(p) == IF IsFile(p) THEN Returns(InfoCount(TextAt(p))) ELSE Raises

Unparsed(p) == ~IsFile(p) \/ (p = "module" /\ moduleText.state = "bytes")

\* No parser and a syntax error read as no symbols; undecodable bytes raise.
SymbolsOf(p) ==
    IF Unparsed(p) \/ p # "module" \/ moduleText.state = "syntax" THEN <<>>
    ELSE PythonSymbols(moduleText.lines)
ExtractSymbols(p) == IF Unparsed(p) THEN Raises ELSE Returns(SymbolsOf(p))

\* Without a parser None, which has no count; of a syntax error, a file of no lines.
ParsedModule(p) ==
    IF Unparsed(p) \/ p # "module" \/ moduleText.state = "syntax" THEN [count |-> 0, imports |-> {}]
    ELSE [count |-> ParsedCount, imports |-> ImportsOf(moduleText.lines)]
ParseAst(p) == IF Unparsed(p) THEN Raises ELSE Returns(ParsedModule(p))

NamedIn(p, name) == Among(SymbolsOf(p), { s \in Range(SymbolsOf(p)) : s.name = name })

\* A path that cannot be parsed is skipped.
FindSymbol(name, paths) == FlattenSeq([i \in DOMAIN paths |-> NamedIn(paths[i], name)])

FindByKind(p, kind) == Among(SymbolsOf(p), { s \in Range(SymbolsOf(p)) : s.kind = kind })
FunctionSignature(p, name) == SubSeq(NamedIn(p, name), 1, Min({1, Len(NamedIn(p, name))}))
GetImports(p) == ParsedModule(p).imports

----------------------------------------------------------------------------
(* The surface and the agent. *)

NotInvoked(tool) == tool \notin Registered \cap allowedTools

Recorded(result) == toolLog' = Append(toolLog, result.ok)

\* invoke_safe: a tool that is unknown or not allowed is an error without a record.
Invoke(tool, asked, result) ==
    /\ ~raised /\ Len(executed) < MaxToolSteps
    /\ IF NotInvoked(tool) THEN UNCHANGED toolLog ELSE Recorded(result)
    /\ executed' = Append(executed, [tool |-> tool, asked |-> asked, module |-> moduleText,
                               refused |-> NotInvoked(tool), result |-> IF NotInvoked(tool) THEN Raises ELSE result])
    /\ UNCHANGED <<moduleText, allowedTools, raised, edits>>

CallFileTool ==
    \/ \E max \in 0..2 : \E files \in ListFiles(max) : Invoke("list_files", max, Returns(files))
    \/ \E p \in {"module", "missing"}, from \in 0..3 : \E upto \in {0, from} :
           Invoke("read_file", <<p, from, upto>>, ReadText(p, from, upto))
    \/ \E k \in SoughtNames, paths \in {<<"module">>, <<"module", ".">>, <<"missing", "outside">>}, max \in 1..2 :
           Invoke("grep", [name |-> k, paths |-> paths, max |-> max], Grep(k, paths, max))
    \/ \E p \in ToolPaths : Invoke("file_exists", p, FileExists(p))
    \/ \E p \in {"module", "missing"} : Invoke("get_file_info", p, FileInfo(p))

CallSymbolTool ==
    \/ \E p \in ToolPaths : Invoke("extract_symbols", p, ExtractSymbols(p))
    \/ \E p \in {"module", "notes"} : Invoke("parse_ast", p, ParseAst(p))
    \/ \E k \in SoughtNames, paths \in {<<"module">>, <<"missing", "module">>} :
           Invoke("find_symbol", [name |-> k, paths |-> paths], Returns(FindSymbol(k, paths)))
    \/ \E kind \in {"function", "method"} : Invoke("find_symbols_by_kind", kind, Returns(FindByKind("module", kind)))
    \/ \E k \in SoughtNames : Invoke("get_function_signature", k, Returns(FunctionSignature("module", k)))
    \/ Invoke("get_imports", "module", Returns(GetImports("module")))
    \/ Invoke("write_file", "module", Raises)

\* An entry of the model's list that is no record, or whose args are none, raises out of
\* the iteration: what was executed before it is in the log, and told to nobody.
MalformedCall ==
    /\ ~raised /\ raised' = TRUE
    /\ executed' = <<>>
    /\ UNCHANGED <<moduleText, allowedTools, toolLog, edits>>

EditModule ==
    /\ ~raised /\ Len(executed) \in 1..(MaxToolSteps - 1) /\ edits < MaxModuleEdits /\ edits' = edits + 1
    /\ \E l \in Texts : l # moduleText.lines
        /\ moduleText' = [moduleText EXCEPT !.lines = l, !.ended = TRUE]
    /\ UNCHANGED <<allowedTools, executed, toolLog, raised>>

ToolNext == CallFileTool \/ CallSymbolTool \/ MalformedCall \/ EditModule

----------------------------------------------------------------------------
(* Properties. *)

ToldBy(i, tool) == executed[i].tool = tool /\ executed[i].result.ok
Feeds(lines, n) == \E i \in 1..n : lines[i].sort = "feed"

\* A line a tool named, read afterwards from the module as it was, is the line meant: a
\* match always, a symbol unless a form feed comes before it (parsers count newlines,
\* read_file splitlines).
NamedLineIsRead ==
    \A i, j \in DOMAIN executed : i < j /\ ToldBy(j, "read_file") /\ executed[i].module = executed[j].module =>
        LET at == executed[j].asked[2] IN
        executed[j].asked = <<"module", at, at>> /\ at # 0 =>
            /\ ToldBy(i, "grep") => \A m \in Range(executed[i].result.value) :
                   m.path = "module" /\ m.number = at => executed[j].result.value = <<m.line>>
            /\ ToldBy(i, "find_symbol") => \A s \in Range(executed[i].result.value) :
                   s.line = at => executed[j].result.value = <<at>> \/ Feeds(executed[i].module.lines, at)

\* The lines a tool counted are those read_file reads of the same text, unless form feeds
\* make more of them or, for the parser, the last one has no newline.
CountedLinesAreThere ==
    \A i, j \in DOMAIN executed : ToldBy(j, "read_file") /\ executed[j].asked = <<"module", 0, 0>> =>
        LET m == executed[j].module read == Len(executed[j].result.value) told == executed[i].result.value IN
        m = executed[i].module /\ i < j =>
            /\ ToldBy(i, "get_file_info") => told <= read /\ (told = read \/ Feeds(m.lines, Len(m.lines)))
            /\ ToldBy(i, "parse_ast") /\ executed[i].asked = "module" =>
                   told.count = read \/ ~m.ended \/ m.state = "syntax"

\* A definition that find_symbol does not find in the module is a coroutine, or the module
\* could not be parsed: that other paths fail loses nothing.
AbsenceHasACause ==
    \A i \in DOMAIN executed : ToldBy(i, "find_symbol") =>
        LET m == executed[i].module IN
        \A l \in DOMAIN m.lines :
            \/ m.lines[l].name # executed[i].asked.name \/ m.lines[l].sort \notin {"def", "async", "class"}
            \/ m.lines[l].sort = "async" \/ m.state # "valid"
            \/ \E s \in Range(executed[i].result.value) : s.line = l

\* A definition is told twice only where it is a method, once as that and once as a
\* function.
TwiceIsAMethod ==
    \A i \in DOMAIN executed : ToldBy(i, "extract_symbols") =>
        \A a, b \in DOMAIN executed[i].result.value : LET s == executed[i].result.value IN
            a # b /\ s[a].line = s[b].line => {s[a].kind, s[b].kind} = {"method", "function"}

\* A match that grep does not tell is past the limit, which matches told twice count
\* towards.
UntoldIsPastTheLimit ==
    \A i \in DOMAIN executed : ToldBy(i, "grep") =>
        LET lines == executed[i].module.lines IN
        \/ Len(executed[i].result.value) = executed[i].asked.max
        \/ "module" \notin Range(executed[i].asked.paths)
        \/ \A l \in DOMAIN lines : lines[l].sort # "feed" /\ lines[l].name = executed[i].asked.name =>
               \E m \in Range(executed[i].result.value) : m.path = "module" /\ m.line = l

\* A file that list_files does not tell is past the limit it was given, and a limit of
\* none is one.
UnlistedIsPastTheLimit ==
    \A i \in DOMAIN executed : ToldBy(i, "list_files") =>
        \/ executed[i].result.value = RepoFiles
        \/ Cardinality(executed[i].result.value) = Max({executed[i].asked, 1})

\* While the iteration goes on and when it ended, the surface's failures are the errors
\* the agent was told, the refusals aside (get_success_rate leaves them out).
FailuresAreTold ==
    ~raised =>
        Cardinality({ i \in DOMAIN executed : ~executed[i].refused /\ ~executed[i].result.ok }) =
        Cardinality({ i \in DOMAIN toolLog : ~toolLog[i] })

------------------------------------------------------------------------------
(***************************************************************************)
(* When an agent's query is explored (workers/rlm: trigger, integration):  *)
(* one detector, whose keywords are added and removed between the checks.  *)
(***************************************************************************)

CONSTANTS
    QueryWords,     \* words that queries hold and keywords are about
    MaxKeywordCalls \* bound: keywords added or removed

\* A keyword is a word as it is spelled: given at construction with capitals or without.
Spellings == [word : QueryWords, capital : BOOLEAN]

VARIABLES
    keywords,       \* complex_query_keywords
    configured,     \* history: the keywords given at construction
    autoTrigger,    \* RLMIntegration.auto_trigger
    askedOf,         \* history: what was last asked of each word: none, added, removed
    lastCheck,        \* the last query lastCheck, the reasons it had and whether it was explored
    keywordCalls

triggerVars == <<keywords, configured, autoTrigger, askedOf, lastCheck, keywordCalls>>

NotChecked == [words |-> {}, reasons |-> {}, explored |-> FALSE, fresh |-> FALSE]

TriggerInit ==
    /\ configured \in { k \in BoundedSeq(Spellings, 2) : IsInjective(k) }
    /\ keywords = configured /\ autoTrigger \in BOOLEAN
    /\ askedOf = [w \in QueryWords |-> "none"] /\ lastCheck = NotChecked /\ keywordCalls = 0

\* The query is lowercased, the keywords are not.
IsComplexQuery(words) == \E i \in DOMAIN keywords : ~keywords[i].capital /\ keywords[i].word \in words

\* What is over its threshold, or asked for; failures count for the debugger only.
Measures == {"explicit", "context", "files", "fails"}
Reasons(over, debugger, words) ==
    { r \in over : r # "fails" \/ debugger } \cup (IF IsComplexQuery(words) THEN {"query"} ELSE {})

\* process_with_rlm_check: without auto_trigger everything is explored.  A check changes
\* nothing, and one is made between two changes.
Process(over, debugger, words) ==
    /\ ~lastCheck.fresh
    /\ LET reasons == Reasons(over, debugger, words) IN
       lastCheck' = [words |-> words, reasons |-> reasons,
                   explored |-> reasons # {} \/ ~autoTrigger, fresh |-> TRUE]
    /\ UNCHANGED <<keywords, configured, autoTrigger, askedOf, keywordCalls>>

AsksOf(w, what) ==
    /\ keywordCalls < MaxKeywordCalls /\ keywordCalls' = keywordCalls + 1
    /\ askedOf' = [askedOf EXCEPT ![w] = what]
    /\ lastCheck' = NotChecked
    /\ UNCHANGED <<configured, autoTrigger>>

Has(w) == \E i \in DOMAIN keywords : keywords[i].word = w

\* Any spelling of it will do.
AddKeyword(w) ==
    /\ AsksOf(w, "added")
    /\ keywords' = IF Has(w) THEN keywords ELSE Append(keywords, [word |-> w, capital |-> FALSE])

\* The first of its spellings goes.
RemoveKeyword(w) ==
    /\ AsksOf(w, "removed")
    /\ keywords' = IF Has(w) THEN RemoveAt(keywords, SelectInSeq(keywords, LAMBDA k : k.word = w)) ELSE keywords

TriggerNext ==
    \/ \E over \in SUBSET Measures, debugger \in BOOLEAN, words \in SUBSET QueryWords :
           Process(over, debugger, words)
    \/ \E w \in QueryWords : AddKeyword(w) \/ RemoveKeyword(w)

----------------------------------------------------------------------------
(* Properties. *)

Spelled(w) == { configured[i].capital : i \in { n \in DOMAIN configured : configured[n].word = w } }

\* A keyword that was added makes its queries complex, unless it was configured with
\* capitals, which no query matches and which keep it from being added; one that was
\* removed does not, unless it was configured in two spellings.
KeywordsAreHeeded ==
    lastCheck.fresh => \A w \in QueryWords : lastCheck.words = {w} =>
        /\ askedOf[w] = "added" => "query" \in lastCheck.reasons \/ TRUE \in Spelled(w)
        /\ askedOf[w] = "removed" => "query" \notin lastCheck.reasons \/ Spelled(w) = BOOLEAN
==============================================================================

------------------------------- MODULE Router -------------------------------
(***************************************************************************)
(* Which pool of resolvers a query goes to: internal/router/router.go and  *)
(* step 2 of Service.Handle.  Control.Start makes the router with New,     *)
(* which reads the rule file, or downloads the list where it got nothing   *)
(* from the file, and writes what it has to the file on every start.       *)
(* Starts come one at a time (ControlLifecycle).                           *)
(*                                                                         *)
(* A list is a sequence of lines, a line the names found in it and whether *)
(* it is a comment and mentions the whitelist; a name is a sequence of     *)
(* labels.  The file is plain or in base64.  Any read of it may fail, any  *)
(* write may fail or be cut short, by an error or by the end of the        *)
(* process.  Reload has no caller.                                         *)
(***************************************************************************)
EXTENDS Naturals, SequencesExt

CONSTANTS
    Lists,    \* the lists a user's file or the URL can hold; <<>> is no list
    Lower,    \* the label a label is in lower case
    Domains,  \* the names clients ask for
    Modes     \* dns.mode; what is neither "direct" nor "proxy" is rules mode

Labels == DOMAIN Lower

Lines == [comment : BOOLEAN, whitelist : BOOLEAN, names : SUBSET Seq(Labels)]

ASSUME ListsAssumption == <<>> \in Lists /\ Lists \subseteq Seq(Lines)
ASSUME NamesAssumption == Lower \in [Labels -> Labels] /\ Domains \subseteq Seq(Labels)

VARIABLES
    mode,       \* Service.mode
    fileURL,    \* the configuration names a URL
    published,  \* the list at the URL
    file,       \* the rule file: [base64, lines]; a missing file has no lines
    step,       \* what Start is doing, or that the server serves
    content,    \* the list New has loaded
    domains,    \* Router.domains
    source,     \* the list the file was last given, by the user or from the URL
    unread,     \* this start got nothing from the file
    cut         \* the file may hold the beginning of a list only

vars == <<mode, fileURL, published, file, step, content, domains, source, unread, cut>>

config == <<mode, fileURL>>
router == <<content, domains>>
history == <<source, unread, cut>>

-----------------------------------------------------------------------------
(* normalize, parseRules, Route and readFile *)

Normalize(d) == [i \in DOMAIN d |-> Lower[d[i]]]

\* The pattern finds names of two labels or more.
RulesOf(line) ==
    IF line.comment THEN {} ELSE {Normalize(d) : d \in {n \in line.names : Len(n) > 1}}

\* Seeded fault: the whitelist is read as rules.
ParseAll(list) ==
    FoldLeft(LAMBDA found, line : found \cup RulesOf(line), {}, list)

\* The loop ends at the whitelist.
AfterLine(acc, line) ==
    IF acc.over \/ line.whitelist
    THEN [acc EXCEPT !.over = TRUE]
    ELSE [acc EXCEPT !.found = @ \cup RulesOf(line)]

ParseRules(list) ==
    LET after[i \in 0..Len(list)] ==
            IF i = 0 THEN [over |-> FALSE, found |-> {}]
            ELSE AfterLine(after[i - 1], list[i])
    IN  after[Len(list)].found

\* The name itself, then its parents.
RouteProxy(d) ==
    LET name == Normalize(d)
    IN  \/ name \in domains
        \/ \E i \in 2..Len(name) : SubSeq(name, i, Len(name)) \in domains

Pool(d) ==
    IF mode \in {"direct", "proxy"} THEN mode
    ELSE IF RouteProxy(d) THEN "proxy" ELSE "direct"

\* Seeded fault: as in download, a file that is not in base64 is no list.
ReadBase64(error) == IF error \/ ~file.base64 THEN <<>> ELSE file.lines

\* An error, of whatever kind, is no list.  Either encoding is read; a plain list,
\* with its dots, is not valid base64.
ReadFile(error) == IF error THEN <<>> ELSE file.lines

Plain(lines) == [base64 |-> FALSE, lines |-> lines]

\* What is left of a list when a write is cut short; what is left of a line is
\* taken to name nothing.
Beginnings(list) ==
    {SubSeq(list, 1, n) : n \in 0..Len(list) - 1}
    \cup {Append(SubSeq(list, 1, n - 1), [list[n] EXCEPT !.names = {}, !.whitelist = FALSE]) :
            n \in 1..Len(list)}

-----------------------------------------------------------------------------

\* The user has put a file in place, or not.
Init ==
    /\ mode \in Modes /\ fileURL \in BOOLEAN /\ published \in Lists
    /\ source \in Lists
    /\ file \in [base64 : BOOLEAN, lines : {source}]
    /\ step = "stopped" /\ content = <<>> /\ domains = {}
    /\ unread = FALSE /\ cut = FALSE

-----------------------------------------------------------------------------
(* New *)

\* Without a list there are no rules and nothing is written.
Loaded(list) ==
    /\ content' = list
    /\ domains' = ParseRules(list)
    /\ step' = IF list = <<>> THEN "serving" ELSE "open"

\* In fact, whatever readFile makes of it.
GotNothing(error) == error \/ file.lines = <<>>

LoadFile(error) ==
    /\ step = "stopped"
    /\ ReadFile(error) # <<>> \/ ~fileURL
    /\ Loaded(ReadFile(error))
    /\ unread' = GotNothing(error)
    /\ UNCHANGED <<config, published, file, source, cut>>

\* A download that fails fails Start, and is no step.
Download(error) ==
    /\ step = "stopped"
    /\ ReadFile(error) = <<>> /\ fileURL
    /\ Loaded(published)
    /\ unread' = GotNothing(error)
    /\ UNCHANGED <<config, published, file, source, cut>>

\* An error of New fails Start, which drops the router.
StartFails ==
    /\ step' = "stopped"
    /\ content' = <<>> /\ domains' = {}

\* The file cannot be opened for writing.
OpenFails ==
    /\ step = "open"
    /\ StartFails
    /\ UNCHANGED <<config, published, file, history>>

\* os.WriteFile opens the file with O_TRUNC: what could not be read is gone ...
Truncate ==
    /\ step = "open"
    /\ file' = Plain(<<>>)
    /\ step' = "write"
    /\ source' = IF unread THEN content ELSE source
    /\ cut' = (cut /\ ~unread)
    /\ UNCHANGED <<config, published, router, unread>>

\* ... and writes the list, decoded.
Write ==
    /\ step = "write"
    /\ file' = Plain(content)
    /\ step' = "serving"
    /\ UNCHANGED <<config, published, router, history>>

\* The write fails, or the process ends in it.
WriteCut ==
    /\ step = "write"
    /\ \E lines \in Beginnings(content) : file' = Plain(lines)
    /\ cut' = TRUE
    /\ StartFails
    /\ UNCHANGED <<config, published, source, unread>>

-----------------------------------------------------------------------------

\* The server is stopped, or the process ends.
Stop ==
    /\ step \in {"open", "serving"}
    /\ StartFails
    /\ UNCHANGED <<config, published, file, history>>

Publish ==
    /\ published' \in Lists
    /\ UNCHANGED <<config, file, step, router, history>>

\* Between two servers another configuration is saved, or the user puts another
\* file in place, or names one.
Configure ==
    /\ step = "stopped"
    /\ mode' \in Modes /\ fileURL' \in BOOLEAN
    /\ UNCHANGED <<published, file, step, router, history>>

Edit ==
    /\ step = "stopped"
    /\ source' \in Lists
    /\ file' \in [base64 : BOOLEAN, lines : {source'}]
    /\ cut' = FALSE
    /\ UNCHANGED <<config, published, step, router, unread>>

Next ==
    \/ \E error \in BOOLEAN : LoadFile(error) \/ Download(error)
    \/ OpenFails \/ Truncate \/ Write \/ WriteCut
    \/ Stop \/ Publish \/ Configure \/ Edit

Spec == Init /\ [][Next]_vars

-----------------------------------------------------------------------------
(* Properties *)

\* The list names d or one of its parents, in whatever case, ahead of the
\* whitelist.
Listed(list, d) ==
    \E i \in DOMAIN list :
        /\ \A j \in 1..i : ~list[j].whitelist
        /\ ~list[i].comment
        /\ \E rule \in list[i].names :
              Len(rule) > 1 /\ IsSuffix(Normalize(rule), Normalize(d))

\* In rules mode a name goes to the proxy pool exactly if the list has it that the
\* user or a download last gave the file, over starts, failures and crashes, with
\* two exceptions: a write of the file was cut short, or this server started
\* without a list because it got nothing from the file and had nothing to download
\* (a read error among the reasons).
RoutedAsListed ==
    /\ step = "serving" /\ mode \notin {"direct", "proxy"}
    /\ ~cut /\ ~(unread /\ content = <<>>)
    => \A d \in Domains : Pool(d) = "proxy" <=> Listed(source, d)

\* A start changes what the file holds only when it got nothing from it (it is
\* empty, or cannot be read, and then a download replaces the user's list): what a
\* start reads it writes back, whether it then fails, stops or crashes, unless a
\* write was cut short.
RulesSurvive ==
    ~cut /\ step # "write" => file.lines = source
=============================================================================

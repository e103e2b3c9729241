-------------------------- MODULE ParseRequestLine --------------------------
(***************************************************************************)
(* parse_requestline(): one pass over a request line.                      *)
(*                                                                         *)
(* The line is read in tokens: a run of characters that the machine does   *)
(* not tell apart is one token, and so is "HTTP" (the states st_http_H to  *)
(* st_http_HTT only spell it).  The line is not chosen in advance: whatever*)
(* may come next comes, so that the runs go through every line there is.   *)
(***************************************************************************)
EXTENDS Integers, Sequences, SequencesExt

CONSTANT MaxRun  \* bound: how often a loop of the machine turns, in a field or in spaces

ASSUME ParseAssumption == MaxRun \in Nat

Upper  == {"GET", "HTTP"}
Digits == {"1"}
Alnum  == Upper \cup Digits    \* small letters may come where digits may, but not in a port or a version
Names  == Alnum \cup {".", "-"}
Space  == {"SP", "\n"}    \* "SP" is the character a field ends with, "\n" stands for every other space
Tokens == Names \cup Space \cup {":", "/", "%"}

Implemented == {<<"GET">>}  \* stands for GET, POST, CONNECT and HEAD
Fields == {"method", "schema", "host", "port", "loc", "version"}
Stale  == <<"stale">>       \* whatever the field held before the call

VARIABLES
  text,       \* the tokens read
  state,
  start, end, \* rc_start and rc_end: the first and the last token of a field
  rqdata,
  result      \* reading, ok (0), or -1: error in the line, incomplete at its end

vars == <<text, state, start, end, rqdata, result>>

Init ==
  /\ text = <<>> /\ state = "st_start" /\ start = 1 /\ end = 0
  /\ rqdata = [f \in Fields |-> Stale] /\ result = "reading"

-----------------------------------------------------------------------------
(* The transitions: on a token of a set in a state, the next state, whether*)
(* rc_start and rc_end are set, and the field that is copied.              *)

Row(from, on, to, marks, field) ==
  [from |-> from, on |-> on, to |-> to, marks |-> marks, field |-> field]
Loop(st, on) == Row(st, on, st, {}, "none")

MethodRows == {
  Loop("st_start", Space),
  Row("st_start", Upper, "st_method", {"start"}, "none"),
  Loop("st_method", Upper),
  Row("st_method", {"SP"}, "st_space_after_method", {"end"}, "method")}

AfterMethodRows == {
  Loop("st_space_after_method", {"SP"}),
  Row("st_space_after_method", {"/"}, "st_loc", {"start"}, "none"),
  Row("st_space_after_method", Tokens \ {"SP", "/"}, "st_uri", {"start"}, "none")}

\* Mutation: the host is not copied before a space.
UriRowsNoHost == {
  Row("st_uri", {":"}, "st_colon_after_uri", {"end"}, "none"),
  Row("st_uri", {"/"}, "st_loc", {"start", "end"}, "host"),
  Loop("st_uri", Names),
  Row("st_uri", {"SP"}, "st_space_before_version", {"end"}, "none")}

\* What comes first may be a schema or a host.
UriRows == {
  Row("st_uri", {":"}, "st_colon_after_uri", {"end"}, "none"),
  Row("st_uri", {"/"}, "st_loc", {"start", "end"}, "host"),
  Loop("st_uri", Names),
  Row("st_uri", {"SP"}, "st_space_before_version", {"end"}, "host")}

ColonRows == {
  Row("st_colon_after_uri", {"/"}, "st_schema_slash", {}, "schema"),
  Row("st_colon_after_uri", Digits, "st_port", {"start"}, "host")}

SchemaRows == {
  Row("st_schema_slash", {"/"}, "st_schema_slash_slash", {}, "none"),
  Row("st_schema_slash_slash", Alnum, "st_host", {"start"}, "none")}

\* The case of a space has no break: the host is copied, and the space is
\* then refused as a port.
HostRows == {
  Loop("st_host", Names),
  Row("st_host", {"/"}, "st_loc", {"start", "end"}, "host"),
  Row("st_host", {":"}, "st_colon_before_port", {"end"}, "host"),
  Row("st_host", {"SP"}, "error", {"end"}, "host")}

\* Mutation: the colon is taken for part of the port.
PortRowsColon == {
  Row("st_colon_before_port", Digits, "st_port", {}, "none"),
  Loop("st_port", Digits),
  Row("st_port", {"/"}, "st_loc", {"start", "end"}, "port"),
  Row("st_port", {"SP"}, "st_space_before_version", {"end"}, "port")}

PortRows == {
  Row("st_colon_before_port", Digits, "st_port", {"start"}, "none"),
  Loop("st_port", Digits),
  Row("st_port", {"/"}, "st_loc", {"start", "end"}, "port"),
  Row("st_port", {"SP"}, "st_space_before_version", {"end"}, "port")}

\* Mutation: a path is made of what a host may be made of.
LocRowsNames == {
  Loop("st_loc", Names \cup {"/"}),
  Row("st_loc", {"SP"}, "st_space_before_version", {"end"}, "loc")}

LocRows == {
  Loop("st_loc", Tokens \ Space),
  Row("st_loc", {"SP"}, "st_space_before_version", {"end"}, "loc")}

VersionRows == {
  Row("st_space_before_version", {"HTTP"}, "st_http_HTTP", {"start"}, "none"),
  Row("st_http_HTTP", {"/"}, "st_http_slash", {}, "none"),
  Row("st_http_slash", Digits, "st_http_slash_version", {}, "none"),
  Loop("st_http_slash_version", Digits \cup {"."}),
  Row("st_http_slash_version", Space, "st_done", {"end"}, "version")}

Rows == MethodRows \cup AfterMethodRows \cup UriRows \cup ColonRows \cup SchemaRows
          \cup HostRows \cup PortRows \cup LocRows \cup VersionRows

\* The most tokens since rc_start with which the loop of a state turns again:
\* there is none before the method, and some before a space or the version.
Bound == CASE state = "st_start"              -> MaxRun - 1
           [] state = "st_space_after_method" -> MaxRun + 1
           [] state = "st_http_slash_version" -> MaxRun + 2
           [] OTHER                           -> MaxRun

\* One turn of the loop, with the next token.
Read(t) ==
  LET rows == {r \in Rows : r.from = state /\ t \in r.on} IN
  /\ result = "reading"
  /\ (\E r \in rows : r.to = state) => Len(text) - start < Bound
  /\ text' = Append(text, t)
  /\ IF rows = {} THEN result' = "error" /\ UNCHANGED <<state, start, end, rqdata>>
     ELSE \E r \in rows :
       /\ end' = IF "end" \in r.marks THEN Len(text) ELSE end
       /\ start' = IF "start" \in r.marks THEN Len(text) + 1 ELSE start
       /\ rqdata' = IF r.field = "none" THEN rqdata
                    ELSE [rqdata EXCEPT ![r.field] = SubSeq(text, start, end')]
       /\ state' = r.to
       /\ result' = IF r.to = "st_done" THEN "ok"
                    ELSE IF r.to = "error" \/ (r.field = "method" /\ rqdata'["method"] \notin Implemented)
                    THEN "error" ELSE "reading"

\* Mutation: rc_end counts the end of the string.
EndOfLinePast ==
  /\ result = "reading" /\ state = "st_http_slash_version"
  /\ end' = Len(text) + 1 /\ state' = "st_done" /\ result' = "ok"
  /\ rqdata' = [rqdata EXCEPT !["version"] = SubSeq(text, start, Len(text))]
  /\ UNCHANGED <<text, start>>

\* The line ends: only after a version, which then is copied.
EndOfLine ==
  /\ result = "reading"
  /\ IF state = "st_http_slash_version"
     THEN /\ end' = Len(text) /\ state' = "st_done" /\ result' = "ok"
          /\ rqdata' = [rqdata EXCEPT !["version"] = SubSeq(text, start, Len(text))]
     ELSE result' = "incomplete" /\ UNCHANGED <<state, end, rqdata>>
  /\ UNCHANGED <<text, start>>

Next == EndOfLine \/ \E t \in Tokens : Read(t)

Spec == Init /\ [][Next]_vars

-----------------------------------------------------------------------------
(* The grammar of the comment before parse_requestline():                  *)
(*   [method][space](schema://)(host)(:port)[loc][space][version]          *)

\* The text of fields, of which some are <<>>.
Part(before, field, after) == IF field = <<>> THEN <<>> ELSE before \o field \o after
Target(f) == Part(<<>>, f.schema, <<":", "/", "/">>) \o f.host \o Part(<<":">>, f.port, <<>>) \o f.loc

\* The lines of the grammar, with short fields; a schema or a port comes with
\* a host only.
Grammar ==
  {<<"GET", "SP">> \o Target(f) \o <<"SP">> \o f.version :
     f \in {g \in [schema : {<<>>, <<"HTTP">>}, host : {<<>>, <<"HTTP">>, <<"HTTP", ".">>, <<"HTTP", "-">>},
                   port : {<<>>, <<"1">>}, loc : {<<"/">>, <<"/", "HTTP">>, <<"/", "%">>},
                   version : {<<"HTTP", "/", "1">>, <<"HTTP", "/", "1", ".", "1">>}] :
            g.schema # <<>> \/ g.port # <<>> => g.host # <<>>}}

Beginnings == UNION {Prefixes(g) : g \in Grammar}

\* Type invariant: the fields hold what they held before or a piece of the
\* line, and the marks stay inside of it.
ParseTypeOK ==
  /\ text \in Seq(Tokens) /\ result \in {"reading", "ok", "error", "incomplete"}
  /\ start \in 1 .. Len(text) + 1 /\ end \in 0 .. Len(text)
  /\ \A f \in Fields : rqdata[f] \in Seq(Tokens) \cup {Stale}

\* What the line says, with the fields it has not got left out.
Said == [f \in Fields |-> IF rqdata[f] = Stale THEN <<>> ELSE rqdata[f]]

\* An accepted line is its fields put together again, but for space before
\* the method, more spaces after it, and what follows the version: no
\* character is lost, or in two fields, or taken for another field's.
FieldsCoverLine ==
  result = "ok" =>
    \E lead \in SeqOf(Space, MaxRun), rest \in SeqOf(Space, 1), gap \in SeqOf({"SP"}, MaxRun + 1) \ {<<>>} :
      text = lead \o Said.method \o gap \o Target(Said) \o <<"SP">> \o Said.version \o rest

\* Every line of the grammar is accepted: what is refused at a token does not
\* begin one, and what is refused at its end is none.
GrammarAccepted ==
  /\ result = "error" => text \notin Beginnings
  /\ result = "incomplete" => text \notin Grammar

\* The parts that a target may have together.
Forms == {
  {"loc"}, {"host"}, {"host", "loc"}, {"host", "port"}, {"host", "port", "loc"},
  {"schema", "host", "loc"}, {"schema", "host", "port"}, {"schema", "host", "port", "loc"}}

\* What doit() finds in the fields of an accepted line: its method, its
\* version and the parts of its target, in one of these forms; all the rest is
\* what an earlier call has left, among it the port of http://b/ and the path
\* of b:80, but never host and path both.
StaleWhereLeftOut ==
  result = "ok" =>
    /\ rqdata["method"] \in Implemented
    /\ \E parts \in Forms : \A f \in Fields :
         rqdata[f] # Stale <=> f \in parts \cup {"method", "version"}
=============================================================================

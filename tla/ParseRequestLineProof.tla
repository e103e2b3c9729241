------------------------ MODULE ParseRequestLineProof ------------------------
(***************************************************************************)
(* Proofs about ParseRequestLine, for lines of any length.                 *)
(*                                                                         *)
(* The machine copies pieces of the line and forgets the line.  The        *)
(* invariant puts it together again: in every state, the line is a head    *)
(* (spaces, method, spaces), then what the copied fields say, then the     *)
(* characters since rc_start.                                              *)
(***************************************************************************)
EXTENDS ParseRequestLine, SequenceTheorems, TLAPS

States == {"st_start", "st_method", "st_space_after_method", "st_uri", "st_colon_after_uri",
           "st_schema_slash", "st_schema_slash_slash", "st_host", "st_colon_before_port", "st_port",
           "st_loc", "st_space_before_version", "st_http_HTTP", "st_http_slash",
           "st_http_slash_version", "st_done", "error"}

ParseTypes ==
  /\ text \in Seq(Tokens) /\ state \in States
  /\ start \in 1 .. Len(text) + 1 /\ end \in 0 .. Len(text)
  /\ rqdata \in [Fields -> Seq(Tokens) \cup {Stale}]
  /\ result \in {"reading", "ok", "error", "incomplete"}

\* Exactly the fields of F have been copied.
Known(F) == \A f \in Fields : rqdata[f] # Stale <=> f \in F

\* The line up to the target.
Leads == SeqOf(Space, MaxRun)
Blank == {"SP"}
Gaps  == SeqOf(Blank, MaxRun + 1) \ {<<>>}
HeadsOf(method) == {lead \o method \o gap : lead \in Leads, gap \in Gaps}
Heads == HeadsOf(rqdata["method"])

\* The target up to the path.
Site(f) == Part(<<>>, f.schema, <<":", "/", "/">>) \o f.host \o Part(<<":">>, f.port, <<>>)

\* The characters since rc_start.
Run == SubSeq(text, start, Len(text))

\* The line is before, followed by characters since rc_start, at least one.
Running(before) == start = Len(before) + 1 /\ Run # <<>> /\ text = before \o Run

\* The parts that may come before a path.
Sites == {{}, {"host"}, {"host", "port"}, {"schema", "host"}, {"schema", "host", "port"}}

\* What was copied before the state is reached.
KnownInv ==
  /\ state \in {"st_start", "st_method"} => Known({})
  /\ state \in {"st_space_after_method", "st_uri", "st_colon_after_uri"} => Known({"method"})
  /\ state \in {"st_schema_slash", "st_schema_slash_slash", "st_host"} => Known({"method", "schema"})
  /\ state = "st_colon_before_port" => Known({"method", "schema", "host"})
  /\ state = "st_port" => Known({"method", "host"}) \/ Known({"method", "schema", "host"})
  /\ state = "st_loc" => \E parts \in Sites : Known(parts \cup {"method"})
  /\ state \in {"st_space_before_version", "st_http_HTTP", "st_http_slash", "st_http_slash_version"} =>
       \E parts \in Forms : Known(parts \cup {"method"})
  /\ state = "st_done" => \E parts \in Forms : Known(parts \cup {"method", "version"})
  /\ state \notin {"st_start", "st_method"} => rqdata["method"] \in Implemented
  /\ state = "st_done" <=> rqdata["version"] # Stale
  /\ \A f \in Fields : rqdata[f] # <<>>

\* What the line is.
LineInv ==
  /\ state = "st_start" => start = 1 /\ text \in Leads
  /\ state = "st_method" => \E lead \in Leads : Running(lead)
  /\ state = "st_space_after_method" =>
       \E lead \in Leads, gap \in Gaps :
         start = Len(lead) + 1 /\ text = lead \o rqdata["method"] \o gap
  /\ state \in {"st_uri", "st_host", "st_loc"} => \E h \in Heads : Running(h \o Site(Said))
  /\ state = "st_colon_after_uri" =>
       \E h \in Heads : /\ start = Len(h) + 1 /\ end \in start .. Len(text)
                        /\ text = h \o SubSeq(text, start, end) \o <<":">>
  /\ state = "st_schema_slash" => \E h \in Heads : text = h \o rqdata["schema"] \o <<":", "/">>
  /\ state = "st_schema_slash_slash" => \E h \in Heads : text = h \o Site(Said)
  /\ state = "st_colon_before_port" => \E h \in Heads : text = h \o Site(Said) \o <<":">>
  /\ state = "st_port" => \E h \in Heads : Running(h \o Site(Said) \o <<":">>)
  /\ state = "st_space_before_version" => \E h \in Heads : text = h \o Target(Said) \o <<"SP">>
  /\ state \in {"st_http_HTTP", "st_http_slash", "st_http_slash_version"} =>
       \E h \in Heads : Running(h \o Target(Said) \o <<"SP">>)
  /\ state = "st_done" =>
       \E h \in Heads, rest \in SeqOf(Space, 1) :
         text = h \o Target(Said) \o <<"SP">> \o Said.version \o rest

\* After an error nothing is claimed; at the end of the line the state is as
\* it was.
ParseInv ==
  /\ ParseTypes
  /\ result \in {"reading", "ok"} => KnownInv /\ LineInv
  /\ result = "ok" => state = "st_done"
  /\ result = "reading" => state \notin {"st_done", "error"}

-----------------------------------------------------------------------------
(* Sequences.                                                              *)

\* What SeqOf() bounds.
LEMMA SeqOfIs ==
  ASSUME NEW S, NEW n \in Nat, NEW s
  PROVE  s \in SeqOf(S, n) <=> s \in Seq(S) /\ Len(s) <= n
<1>1. ASSUME s \in SeqOf(S, n) PROVE s \in Seq(S) /\ Len(s) <= n
  <2>1. PICK m \in 0 .. n : s \in [1 .. m -> S]
    BY <1>1 DEF SeqOf
  <2>2. s \in Seq(S)
    BY <2>1, SeqDef
  <2>3. Len(s) \in Nat /\ DOMAIN s = 1 .. Len(s)
    BY <2>2, LenProperties, Zenon
  <2>4. DOMAIN s = 1 .. m
    BY <2>1, Zenon
  <2>5. m \in Nat /\ m <= n
    OBVIOUS
  <2>6. Len(s) <= m
    <3>1. ASSUME Len(s) # 0 PROVE Len(s) \in 1 .. Len(s)
      BY <2>3, <3>1
    <3>2. 1 .. Len(s) = 1 .. m
      BY <2>3, <2>4, Zenon
    <3>3. Len(s) # 0 => Len(s) \in 1 .. m
      BY <3>1, <3>2, Zenon
    <3> QED
      BY <2>3, <2>5, <3>3
  <2> QED
    BY <2>2, <2>3, <2>5, <2>6
<1>2. ASSUME s \in Seq(S), Len(s) <= n PROVE s \in SeqOf(S, n)
  <2>1. Len(s) \in 0 .. n /\ s \in [1 .. Len(s) -> S]
    BY <1>2, LenProperties
  <2> QED
    BY <2>1, Zenon DEF SeqOf
<1> QED
  BY <1>1, <1>2

LEMMA Pairs ==
  ASSUME NEW S, NEW a \in S, NEW b \in S
  PROVE  /\ <<a>> \in Seq(S) /\ Len(<<a>>) = 1 /\ <<a>>[1] = a /\ <<a>> # <<>>
         /\ <<a, b>> \in Seq(S) /\ <<a, b>> = <<a>> \o <<b>>
<1>1. \A x \in S : <<x>> \in Seq(S) /\ Len(<<x>>) = 1 /\ <<x>>[1] = x /\ <<x>> # <<>>
  OBVIOUS
<1>2. PICK s \in Seq(S) : s = <<a>> /\ Len(s) = 1 /\ s[1] = a
  BY <1>1
<1>3. PICK u \in Seq(S) : u = <<b>> /\ Len(u) = 1 /\ u[1] = b
  BY <1>1
<1>4. s \o u \in Seq(S) /\ Len(s \o u) = 2 /\ (s \o u)[1] = a /\ (s \o u)[2] = b
  BY <1>2, <1>3, ConcatProperties
<1>5. PICK v \in Seq(S) : v = <<a, b>> /\ Len(v) = 2 /\ v[1] = a /\ v[2] = b
  <2>1. <<a, b>> \in Seq(S)
    OBVIOUS
  <2> QED
    BY <2>1
<1>6. \A i \in 1 .. Len(v) : v[i] = (s \o u)[i]
  BY <1>4, <1>5
<1>7. v = s \o u
  BY <1>4, <1>5, <1>6, SeqEqual
<1> QED
  BY <1>1, <1>2, <1>3, <1>5, <1>7

LEMMA Triples ==
  ASSUME NEW S, NEW a \in S, NEW b \in S, NEW c \in S
  PROVE  <<a, b, c>> \in Seq(S) /\ <<a, b, c>> = <<a, b>> \o <<c>>
<1>1. PICK s \in Seq(S) : s = <<a, b>> /\ Len(s) = 2 /\ s[1] = a /\ s[2] = b
  <2>1. <<a, b>> \in Seq(S)
    OBVIOUS
  <2> QED
    BY <2>1
<1>2. PICK u \in Seq(S) : u = <<c>> /\ Len(u) = 1 /\ u[1] = c
  BY Pairs
<1>3. s \o u \in Seq(S) /\ Len(s \o u) = 3 /\ (s \o u)[1] = a /\ (s \o u)[2] = b /\ (s \o u)[3] = c
  BY <1>1, <1>2, ConcatProperties
<1>4. PICK v \in Seq(S) : v = <<a, b, c>> /\ Len(v) = 3 /\ v[1] = a /\ v[2] = b /\ v[3] = c
  <2>1. <<a, b, c>> \in Seq(S)
    OBVIOUS
  <2> QED
    BY <2>1
<1>5. \A i \in 1 .. Len(v) : v[i] = (s \o u)[i]
  BY <1>3, <1>4
<1>6. v = s \o u
  BY <1>3, <1>4, <1>5, SeqEqual
<1> QED
  BY <1>1, <1>2, <1>4, <1>6

LEMMA Associative ==
  ASSUME NEW a \in Seq(Tokens), NEW b \in Seq(Tokens), NEW c \in Seq(Tokens)
  PROVE  (a \o b) \o c = a \o (b \o c)
BY ConcatAssociative

LEMMA Joined ==
  ASSUME NEW a \in Seq(Tokens), NEW b \in Seq(Tokens)
  PROVE  a \o b \in Seq(Tokens)
BY ConcatProperties, Zenon

\* The order of two concatenations does not matter.
Regrouped(a, b, c) == (a \o b) \o c = a \o (b \o c)

LEMMA Regroup ==
  ASSUME NEW a \in Seq(Tokens), NEW b \in Seq(Tokens), NEW c \in Seq(Tokens)
  PROVE  Regrouped(a, b, c)
BY Associative, Zenon DEF Regrouped

FourParts(a, b, c, d) == ((a \o b) \o c) \o d = a \o (b \o (c \o d))

LEMMA RegroupFour ==
  ASSUME NEW a \in Seq(Tokens), NEW b \in Seq(Tokens), NEW c \in Seq(Tokens), NEW d \in Seq(Tokens)
  PROVE  FourParts(a, b, c, d)
<1>1. a \o b \in Seq(Tokens) /\ c \o d \in Seq(Tokens)
  BY Joined, Zenon
<1>2. Regrouped(a \o b, c, d) /\ Regrouped(a, b, c \o d)
  BY <1>1, Regroup, Zenon
<1> QED
  BY <1>2, Zenon DEF Regrouped, FourParts

LEMMA OneSpace ==
  ASSUME NEW t \in Space
  PROVE  <<t>> \in SeqOf(Space, 1)
<1>1. <<t>> \in Seq(Space) /\ Len(<<t>>) = 1
  BY Pairs
<1>2. \A n \in Nat : Len(<<t>>) <= n => <<t>> \in SeqOf(Space, n)
  BY <1>1, SeqOfIs
<1> QED
  BY <1>1, <1>2

LEMMA OneMore ==
  ASSUME NEW b \in Seq(Tokens), NEW run \in Seq(Tokens), NEW t \in Tokens
  PROVE  /\ Append(b \o run, t) = b \o Append(run, t)
         /\ Append(b \o run, t) = b \o run \o <<t>>
         /\ Append(b, t) = b \o <<t>>
<1>1. b \o run \in Seq(Tokens) /\ <<t>> \in Seq(Tokens)
  BY ConcatProperties
<1>2. Append(b \o run, t) = (b \o run) \o <<t>> /\ Append(run, t) = run \o <<t>> /\ Append(b, t) = b \o <<t>>
  BY <1>1, AppendIsConcat
<1>3. Regrouped(b, run, <<t>>)
  BY <1>1, Regroup, Zenon
<1>4. (b \o run) \o <<t>> = b \o (run \o <<t>>)
  BY <1>3, Zenon DEF Regrouped
<1> QED
  BY <1>2, <1>4

\* What follows the first Len(b) of them.
LEMMA SubSeqAfter ==
  ASSUME NEW S, NEW b \in Seq(S), NEW run \in Seq(S)
  PROVE  SubSeq(b \o run, Len(b) + 1, Len(b \o run)) = run
<1> DEFINE s == b \o run
           u == SubSeq(s, Len(b) + 1, Len(s))
<1>1. /\ Len(b) \in Nat /\ Len(run) \in Nat /\ s \in Seq(S) /\ Len(s) = Len(b) + Len(run)
      /\ \A i \in 1 .. Len(b) + Len(run) : s[i] = IF i <= Len(b) THEN b[i] ELSE run[i - Len(b)]
  BY LenProperties, ConcatProperties
<1>2. \A i \in Len(b) + 1 .. Len(s) : s[i] \in S
  BY <1>1, ElementOfSeq
<1>3. Len(b) + 1 \in Int /\ Len(s) \in Int
  BY <1>1
<1>4. /\ u \in Seq(S)
      /\ Len(u) = IF Len(b) + 1 <= Len(s) THEN Len(s) - (Len(b) + 1) + 1 ELSE 0
      /\ \A i \in 1 .. Len(s) - (Len(b) + 1) + 1 : u[i] = s[Len(b) + 1 + i - 1]
  BY <1>2, <1>3, SubSeqProperties
<1> HIDE DEF s, u
<1>5. Len(u) = Len(run)
  BY <1>1, <1>4
<1>6. ASSUME NEW i \in 1 .. Len(run) PROVE u[i] = run[i]
  <2>1. u[i] = s[Len(b) + i]
    <3>1. i \in 1 .. Len(s) - (Len(b) + 1) + 1 /\ Len(b) + 1 + i - 1 = Len(b) + i
      BY <1>1
    <3> QED
      BY <1>4, <3>1
  <2>2. s[Len(b) + i] = run[i]
    <3>1. Len(b) + i \in 1 .. Len(b) + Len(run) /\ ~(Len(b) + i <= Len(b)) /\ (Len(b) + i) - Len(b) = i
      BY <1>1
    <3> QED
      BY <1>1, <3>1
  <2> QED
    BY <2>1, <2>2
<1>7. u = run
  BY <1>4, <1>5, <1>6, SeqEqual
<1> QED
  BY <1>7 DEF s, u

\* The characters since rc_start begin, and become more.
LEMMA RunBegins ==
  ASSUME NEW b \in Seq(Tokens), NEW t \in Tokens, text = b, text' = Append(text, t),
         start' = Len(text) + 1
  PROVE  Running(b)'
<1>1. text' = b \o <<t>> /\ <<t>> \in Seq(Tokens)
  BY AppendIsConcat
<1>2. Run' = <<t>>
  <2>1. SubSeq(b \o <<t>>, Len(b) + 1, Len(b \o <<t>>)) = <<t>>
    BY <1>1, SubSeqAfter
  <2>2. start' = Len(b) + 1
    OBVIOUS
  <2> QED
    BY <1>1, <2>1, <2>2 DEF Run
<1> QED
  BY <1>1, <1>2 DEF Running

LEMMA RunTurns ==
  ASSUME NEW b \in Seq(Tokens), NEW t \in Tokens, text \in Seq(Tokens), Running(b), Run \in Seq(Tokens),
         text' = Append(text, t), start' = start
  PROVE  Running(b)'
<1>1. PICK run \in Seq(Tokens) : run = Run
  OBVIOUS
<1>2. text' = b \o Append(run, t) /\ Append(run, t) \in Seq(Tokens) /\ Append(run, t) # <<>>
  <2>1. text = b \o run
    BY <1>1 DEF Running
  <2>2. Append(b \o run, t) = b \o Append(run, t)
    BY OneMore
  <2>3. Append(run, t) \in Seq(Tokens) /\ Append(run, t) # <<>>
    BY AppendProperties
  <2>4. text' = Append(b \o run, t)
    BY <2>1
  <2> QED
    BY <2>2, <2>3, <2>4
<1>3. PICK more \in Seq(Tokens) : more = Append(run, t)
  BY <1>2
<1>4. text' = b \o more /\ more # <<>>
  BY <1>2, <1>3
<1>5. start' = Len(b) + 1
  BY DEF Running
<1>6. Run' = more
  <2>1. SubSeq(b \o more, Len(b) + 1, Len(b \o more)) = more
    BY SubSeqAfter
  <2> QED
    BY <1>4, <1>5, <2>1 DEF Run
<1> QED
  BY <1>4, <1>5, <1>6 DEF Running

-----------------------------------------------------------------------------
(* Fields and rows.                                                        *)

LEMMA TokensAre ==
  /\ Space \subseteq Tokens /\ Upper \subseteq Tokens /\ Names \subseteq Tokens
  /\ {"SP"} \subseteq Space /\ {":", "/", "SP"} \subseteq Tokens /\ Digits \subseteq Tokens
  /\ Stale \notin Seq(Tokens) /\ \A m \in Implemented : m \in Seq(Tokens) /\ Len(m) = 1
  /\ <<":", "/", "/">> \in Seq(Tokens) /\ <<":", "/">> \in Seq(Tokens) /\ <<":">> \in Seq(Tokens)
  /\ <<"SP">> \in Seq(Tokens)
  /\ <<":", "/">> = <<":">> \o <<"/">> /\ <<":", "/", "/">> = <<":", "/">> \o <<"/">>
<1>1. "stale" \notin Tokens
  BY DEF Tokens, Names, Alnum, Upper, Digits, Space
<1>2. ASSUME Stale \in Seq(Tokens) PROVE FALSE
  <2>1. Stale[1] \in Tokens
    BY <1>2, ElementOfSeq, LenProperties DEF Stale
  <2> QED
    BY <1>1, <2>1 DEF Stale
<1>3. \A m \in Implemented : m \in Seq(Tokens) /\ Len(m) = 1
  <2>1. "GET" \in Tokens
    BY DEF Tokens, Names, Alnum, Upper
  <2>2. <<"GET">> \in Seq(Tokens) /\ Len(<<"GET">>) = 1
    BY <2>1, Pairs, Zenon
  <2> QED
    BY <2>2, Zenon DEF Implemented
<1>4. /\ <<":", "/", "/">> \in Seq(Tokens) /\ <<":", "/">> \in Seq(Tokens) /\ <<":">> \in Seq(Tokens)
      /\ <<"SP">> \in Seq(Tokens)
      /\ <<":", "/">> = <<":">> \o <<"/">> /\ <<":", "/", "/">> = <<":", "/">> \o <<"/">>
  <2> DEFINE colon == ":"
             slash == "/"
             space == "SP"
  <2>1. colon \in Tokens /\ slash \in Tokens /\ space \in Tokens
    BY DEF Tokens, Space, Names
  <2> HIDE DEF colon, slash, space
  <2>2. /\ <<colon, slash, slash>> \in Seq(Tokens) /\ <<colon, slash>> \in Seq(Tokens)
        /\ <<colon>> \in Seq(Tokens) /\ <<space>> \in Seq(Tokens)
        /\ <<colon, slash>> = <<colon>> \o <<slash>>
        /\ <<colon, slash, slash>> = <<colon, slash>> \o <<slash>>
    <3>1. \A a, b \in Tokens : <<a>> \in Seq(Tokens) /\ <<a, b>> \in Seq(Tokens) /\ <<a, b>> = <<a>> \o <<b>>
      BY Pairs
    <3>2. \A a, b, c \in Tokens : <<a, b, c>> \in Seq(Tokens) /\ <<a, b, c>> = <<a, b>> \o <<c>>
      BY Triples
    <3>3. <<colon>> \in Seq(Tokens) /\ <<space>> \in Seq(Tokens)
      BY <2>1, <3>1
    <3>4. <<colon, slash>> \in Seq(Tokens) /\ <<colon, slash>> = <<colon>> \o <<slash>>
      BY <2>1, <3>1
    <3>5. <<colon, slash, slash>> \in Seq(Tokens) /\ <<colon, slash, slash>> = <<colon, slash>> \o <<slash>>
      BY <2>1, <3>2
    <3> QED
      BY <3>3, <3>4, <3>5
  <2> QED
    BY <2>2 DEF colon, slash, space
<1> QED
  BY <1>2, <1>3, <1>4 DEF Tokens, Names, Alnum, Upper, Digits, Space

\* What the fields say is a sequence of tokens.
LEMMA SaidOf ==
  ASSUME NEW data \in [Fields -> Seq(Tokens) \cup {Stale}],
         NEW f, f = [x \in Fields |-> IF data[x] = Stale THEN <<>> ELSE data[x]]
  PROVE  /\ f.schema \in Seq(Tokens) /\ f.host \in Seq(Tokens) /\ f.port \in Seq(Tokens)
         /\ f.loc \in Seq(Tokens) /\ f.version \in Seq(Tokens)
         /\ Site(f) \in Seq(Tokens) /\ Target(f) \in Seq(Tokens)
         /\ Target(f) = Site(f) \o f.loc
<1>1. /\ f.schema \in Seq(Tokens) /\ f.host \in Seq(Tokens) /\ f.port \in Seq(Tokens)
      /\ f.loc \in Seq(Tokens) /\ f.version \in Seq(Tokens)
  BY EmptySeq DEF Fields
<1>2. <<>> \in Seq(Tokens) /\ <<":", "/", "/">> \in Seq(Tokens) /\ <<":">> \in Seq(Tokens)
  BY EmptySeq, TokensAre, Zenon
<1>3. /\ Part(<<>>, f.schema, <<":", "/", "/">>) \in Seq(Tokens)
      /\ Part(<<":">>, f.port, <<>>) \in Seq(Tokens)
  BY <1>1, <1>2, ConcatProperties DEF Part
<1>4. Site(f) \in Seq(Tokens)
  BY <1>1, <1>3, ConcatProperties DEF Site
<1>5. Target(f) = Site(f) \o f.loc
  BY DEF Target, Site
<1>6. Target(f) \in Seq(Tokens)
  <2>1. PICK site \in Seq(Tokens), loc \in Seq(Tokens) : site = Site(f) /\ loc = f.loc
    BY <1>1, <1>4
  <2>2. site \o loc \in Seq(Tokens)
    BY ConcatProperties
  <2> QED
    BY <1>5, <2>1, <2>2
<1> QED
  BY <1>1, <1>4, <1>5, <1>6

LEMMA SaidIs ==
  ASSUME ParseTypes
  PROVE  /\ Said.schema \in Seq(Tokens) /\ Said.host \in Seq(Tokens) /\ Said.port \in Seq(Tokens)
         /\ Said.loc \in Seq(Tokens) /\ Said.version \in Seq(Tokens)
         /\ Site(Said) \in Seq(Tokens) /\ Target(Said) \in Seq(Tokens)
         /\ Target(Said) = Site(Said) \o Said.loc
BY SaidOf DEF Said, ParseTypes

\* How the site grows with each field: g has one field more than f.
LEMMA SiteGrows ==
  ASSUME NEW f, f.schema \in Seq(Tokens), f.host \in Seq(Tokens), f.port \in Seq(Tokens),
         NEW g, g.schema \in Seq(Tokens), g.host \in Seq(Tokens), g.port \in Seq(Tokens)
  PROVE  /\ f.schema = <<>> /\ f.host = <<>> /\ f.port = <<>> => Site(f) = <<>>
         /\ g.schema # <<>> /\ g.host = <<>> /\ g.port = <<>>
              => Site(g) = g.schema \o <<":", "/", "/">>
         /\ g.schema = f.schema /\ f.host = <<>> /\ f.port = <<>> /\ g.port = <<>>
              => Site(g) = Site(f) \o g.host
         /\ g.schema = f.schema /\ g.host = f.host /\ f.port = <<>> /\ g.port # <<>>
              => Site(g) = Site(f) \o (<<":">> \o g.port)
<1>1. <<>> \in Seq(Tokens) /\ <<":", "/", "/">> \in Seq(Tokens) /\ <<":">> \in Seq(Tokens)
  BY EmptySeq, TokensAre, Zenon
<1>2. \A s \in Seq(Tokens) : s \o <<>> = s /\ <<>> \o s = s
  BY ConcatEmptySeq
<1> DEFINE p == Part(<<>>, f.schema, <<":", "/", "/">>)
           q == Part(<<>>, g.schema, <<":", "/", "/">>)
<1>3. p \in Seq(Tokens) /\ q \in Seq(Tokens)
  BY <1>1, ConcatProperties DEF Part
<1>4. p \o f.host \in Seq(Tokens) /\ q \o g.host \in Seq(Tokens) /\ <<":">> \o g.port \in Seq(Tokens)
  BY <1>1, <1>3, ConcatProperties
<1>5. /\ Site(f) = IF f.port = <<>> THEN p \o f.host ELSE p \o f.host \o (<<":">> \o f.port \o <<>>)
      /\ Site(g) = IF g.port = <<>> THEN q \o g.host ELSE q \o g.host \o (<<":">> \o g.port)
  BY <1>2, <1>4 DEF Site, Part
<1>6. /\ f.schema = <<>> => p = <<>>
      /\ g.schema # <<>> => q = g.schema \o <<":", "/", "/">>
      /\ g.schema = f.schema => p = q
  <2>1. <<>> \o g.schema = g.schema
    BY <1>2, Zenon
  <2>2. f.schema = <<>> => p = <<>>
    BY Zenon DEF Part
  <2>3. g.schema # <<>> => q = <<>> \o g.schema \o <<":", "/", "/">>
    BY Zenon DEF Part
  <2>4. g.schema = f.schema => p = q
    BY Zenon
  <2> QED
    BY <2>1, <2>2, <2>3, <2>4, Zenon
<1> HIDE DEF p, q
<1>7. f.schema = <<>> /\ f.host = <<>> /\ f.port = <<>> => Site(f) = <<>>
  <2>1. <<>> \o <<>> = <<>>
    BY <1>1, <1>2, Zenon
  <2> QED
    BY <1>5, <1>6, <2>1, Zenon
<1>8. g.schema # <<>> /\ g.host = <<>> /\ g.port = <<>>
         => Site(g) = g.schema \o <<":", "/", "/">>
  <2>1. q \o <<>> = q
    BY <1>2, <1>3, Zenon
  <2> QED
    BY <1>5, <1>6, <2>1, Zenon
<1>9. f.host = <<>> => p \o f.host = p
  BY <1>2, <1>3, Zenon
<1>10. g.schema = f.schema /\ f.host = <<>> /\ f.port = <<>> /\ g.port = <<>>
         => Site(g) = Site(f) \o g.host
  BY <1>5, <1>6, <1>9, Zenon
<1>11. g.schema = f.schema /\ g.host = f.host /\ f.port = <<>> /\ g.port # <<>>
         => Site(g) = Site(f) \o (<<":">> \o g.port)
  BY <1>5, <1>6, Zenon
<1> QED
  BY <1>7, <1>8, <1>10, <1>11

\* What a turn of the loop does with a row of the table.
Taken(r) ==
  /\ end' = IF "end" \in r.marks THEN Len(text) ELSE end
  /\ start' = IF "start" \in r.marks THEN Len(text) + 1 ELSE start
  /\ rqdata' = IF r.field = "none" THEN rqdata
               ELSE [rqdata EXCEPT ![r.field] = SubSeq(text, start, end')]
  /\ state' = r.to
  /\ result' = IF r.to = "st_done" THEN "ok"
               ELSE IF r.to = "error" \/ (r.field = "method" /\ rqdata'["method"] \notin Implemented)
               THEN "error" ELSE "reading"

Is(r, from, on, to, marks, field) ==
  r.from = from /\ r.on = on /\ r.to = to /\ r.marks = marks /\ r.field = field

LEMMA RowIs ==
  ASSUME NEW from, NEW on, NEW to, NEW marks, NEW field, NEW r, r = Row(from, on, to, marks, field)
  PROVE  Is(r, from, on, to, marks, field)
BY Zenon DEF Row, Is

\* The table, one row after the other.
LEMMA RowsAre ==
  ASSUME NEW r \in Rows
  PROVE
    \/ Is(r, "st_start", Space, "st_start", {}, "none")
    \/ Is(r, "st_start", Upper, "st_method", {"start"}, "none")
    \/ Is(r, "st_method", Upper, "st_method", {}, "none")
    \/ Is(r, "st_method", {"SP"}, "st_space_after_method", {"end"}, "method")
    \/ Is(r, "st_space_after_method", {"SP"}, "st_space_after_method", {}, "none")
    \/ Is(r, "st_space_after_method", {"/"}, "st_loc", {"start"}, "none")
    \/ Is(r, "st_space_after_method", Tokens \ {"SP", "/"}, "st_uri", {"start"}, "none")
    \/ Is(r, "st_uri", {":"}, "st_colon_after_uri", {"end"}, "none")
    \/ Is(r, "st_uri", {"/"}, "st_loc", {"start", "end"}, "host")
    \/ Is(r, "st_uri", Names, "st_uri", {}, "none")
    \/ Is(r, "st_uri", {"SP"}, "st_space_before_version", {"end"}, "host")
    \/ Is(r, "st_colon_after_uri", {"/"}, "st_schema_slash", {}, "schema")
    \/ Is(r, "st_colon_after_uri", Digits, "st_port", {"start"}, "host")
    \/ Is(r, "st_schema_slash", {"/"}, "st_schema_slash_slash", {}, "none")
    \/ Is(r, "st_schema_slash_slash", Alnum, "st_host", {"start"}, "none")
    \/ Is(r, "st_host", Names, "st_host", {}, "none")
    \/ Is(r, "st_host", {"/"}, "st_loc", {"start", "end"}, "host")
    \/ Is(r, "st_host", {":"}, "st_colon_before_port", {"end"}, "host")
    \/ Is(r, "st_host", {"SP"}, "error", {"end"}, "host")
    \/ Is(r, "st_colon_before_port", Digits, "st_port", {"start"}, "none")
    \/ Is(r, "st_port", Digits, "st_port", {}, "none")
    \/ Is(r, "st_port", {"/"}, "st_loc", {"start", "end"}, "port")
    \/ Is(r, "st_port", {"SP"}, "st_space_before_version", {"end"}, "port")
    \/ Is(r, "st_loc", Tokens \ Space, "st_loc", {}, "none")
    \/ Is(r, "st_loc", {"SP"}, "st_space_before_version", {"end"}, "loc")
    \/ Is(r, "st_space_before_version", {"HTTP"}, "st_http_HTTP", {"start"}, "none")
    \/ Is(r, "st_http_HTTP", {"/"}, "st_http_slash", {}, "none")
    \/ Is(r, "st_http_slash", Digits, "st_http_slash_version", {}, "none")
    \/ Is(r, "st_http_slash_version", Digits \cup {"."}, "st_http_slash_version", {}, "none")
    \/ Is(r, "st_http_slash_version", Space, "st_done", {"end"}, "version")
<1>1. CASE r \in MethodRows
  BY <1>1, RowIs, Zenon DEF MethodRows, Loop
<1>2. CASE r \in AfterMethodRows
  BY <1>2, RowIs, Zenon DEF AfterMethodRows, Loop
<1>3. CASE r \in UriRows
  BY <1>3, RowIs, Zenon DEF UriRows, Loop
<1>4. CASE r \in ColonRows
  BY <1>4, RowIs, Zenon DEF ColonRows, Loop
<1>5. CASE r \in SchemaRows
  BY <1>5, RowIs, Zenon DEF SchemaRows, Loop
<1>6. CASE r \in HostRows
  BY <1>6, RowIs, Zenon DEF HostRows, Loop
<1>7. CASE r \in PortRows
  BY <1>7, RowIs, Zenon DEF PortRows, Loop
<1>8. CASE r \in LocRows
  BY <1>8, RowIs, Zenon DEF LocRows, Loop
<1>9. CASE r \in VersionRows
  BY <1>9, RowIs, Zenon DEF VersionRows, Loop
<1> QED
  BY <1>1, <1>2, <1>3, <1>4, <1>5, <1>6, <1>7, <1>8, <1>9, Zenon DEF Rows

LEMMA RowsTyped ==
  ASSUME NEW r \in Rows
  PROVE  r.to \in States /\ r.field \in Fields \cup {"none"}
BY RowsAre DEF Is, States, Fields

LEMMA Turn ==
  ASSUME ParseInv, NEW t \in Tokens, Read(t)
  PROVE  /\ result = "reading" /\ text' = Append(text, t)
         /\ ParseTypes /\ KnownInv /\ LineInv
         /\ \/ result' = "error" /\ UNCHANGED <<state, start, end, rqdata>>
            \/ \E r \in Rows : r.from = state /\ t \in r.on /\ Taken(r)
<1> DEFINE rows == {r \in Rows : r.from = state /\ t \in r.on}
<1>1. result = "reading" /\ text' = Append(text, t)
  BY DEF Read
<1>2. ParseTypes /\ KnownInv /\ LineInv
  BY <1>1 DEF ParseInv
<1>3. CASE rows = {}
  BY <1>1, <1>2, <1>3 DEF Read
<1>4. CASE rows # {}
  <2>1. \E r \in rows : Taken(r)
    BY <1>4, Zenon DEF Read, Taken
  <2> QED
    BY <1>1, <1>2, <2>1
<1> QED
  BY <1>3, <1>4

LEMMA PieceIs ==
  ASSUME ParseTypes, NEW last \in 0 .. Len(text)
  PROVE  /\ SubSeq(text, start, last) \in Seq(Tokens)
         /\ start <= last => SubSeq(text, start, last) # <<>>
<1>1. \A i \in start .. last : text[i] \in Tokens
  BY ElementOfSeq, LenProperties DEF ParseTypes
<1>2. start \in Int /\ last \in Int
  BY LenProperties DEF ParseTypes
<1>3. /\ SubSeq(text, start, last) \in Seq(Tokens)
      /\ Len(SubSeq(text, start, last)) = IF start <= last THEN last - start + 1 ELSE 0
  BY <1>1, <1>2, SubSeqProperties
<1>4. ASSUME start <= last PROVE SubSeq(text, start, last) # <<>>
  <2>1. last - start + 1 # 0
    BY <1>2, <1>4
  <2> QED
    BY <1>3, <1>4, <2>1
<1> QED
  BY <1>3, <1>4

LEMMA TypesKept ==
  ASSUME ParseTypes, NEW t \in Tokens, text' = Append(text, t), NEW r \in Rows, Taken(r)
  PROVE  ParseTypes'
<1>1. text' \in Seq(Tokens) /\ Len(text') = Len(text) + 1 /\ Len(text) \in Nat
  BY AppendProperties, LenProperties DEF ParseTypes
<1>2. /\ state' \in States /\ result' \in {"reading", "ok", "error", "incomplete"}
      /\ end' \in 0 .. Len(text) /\ end' \in 0 .. Len(text') /\ start' \in 1 .. Len(text') + 1
  BY <1>1, RowsTyped DEF Taken, ParseTypes
<1>3. rqdata' \in [Fields -> Seq(Tokens) \cup {Stale}]
  <2>1. SubSeq(text, start, end') \in Seq(Tokens)
    BY <1>2, PieceIs
  <2>2. r.field = "none" \/ r.field \in Fields
    BY RowsTyped
  <2> QED
    BY <2>1, <2>2 DEF Taken, ParseTypes
<1> QED
  BY <1>1, <1>2, <1>3 DEF ParseTypes

\* A field that is copied holds some tokens: those since rc_start, but for
\* what was found to be a schema or a host at the colon after it.
LEMMA Copied ==
  ASSUME ParseTypes, LineInv, NEW r \in Rows, r.from = state, Taken(r), r.field # "none"
  PROVE  /\ r.field \in Fields
         /\ \E w \in Seq(Tokens) : /\ w # <<>> /\ w # Stale /\ rqdata' = [rqdata EXCEPT ![r.field] = w]
                                   /\ w = IF state = "st_colon_after_uri" THEN SubSeq(text, start, end) ELSE Run
<1> DEFINE w == SubSeq(text, start, end')
<1>1. CASE state = "st_colon_after_uri"
  <2>1. end' = end
    BY <1>1, RowsAre DEF Is, Taken
  <2>2. end \in 0 .. Len(text) /\ start <= end
    BY <1>1, LenProperties DEF LineInv, ParseTypes
  <2>3. w \in Seq(Tokens) /\ w # <<>> /\ w = SubSeq(text, start, end)
    BY <2>1, <2>2, PieceIs
  <2> QED
    BY <1>1, <2>3, RowsTyped, TokensAre DEF Taken
<1>2. CASE state # "st_colon_after_uri"
  <2>1. end' = Len(text) /\ state \in {"st_method", "st_uri", "st_host", "st_port", "st_loc", "st_http_slash_version"}
    BY <1>2, RowsAre DEF Is, Taken
  <2>2. w = Run
    BY <2>1 DEF Run
  <2>3. Run # <<>>
    BY <2>1 DEF LineInv, Running
  <2>4. w \in Seq(Tokens)
    BY <2>1, PieceIs, LenProperties DEF ParseTypes
  <2> QED
    BY <1>2, <2>2, <2>3, <2>4, RowsTyped, TokensAre DEF Taken
<1> QED
  BY <1>1, <1>2

\* The rows that copy a field.
LEMMA CopyingRows ==
  ASSUME NEW r \in Rows, r.field # "none", r.to # "error"
  PROVE  \/ r.from = "st_method" /\ r.field = "method" /\ r.to = "st_space_after_method"
         \/ r.from \in {"st_uri", "st_host"} /\ r.field = "host" /\ r.to = "st_loc"
         \/ r.from = "st_uri" /\ r.field = "host" /\ r.to = "st_space_before_version"
         \/ r.from = "st_colon_after_uri" /\ r.field = "schema" /\ r.to = "st_schema_slash"
         \/ r.from = "st_colon_after_uri" /\ r.field = "host" /\ r.to = "st_port"
         \/ r.from = "st_host" /\ r.field = "host" /\ r.to = "st_colon_before_port"
         \/ r.from = "st_port" /\ r.field = "port" /\ r.to \in {"st_loc", "st_space_before_version"}
         \/ r.from = "st_loc" /\ r.field = "loc" /\ r.to = "st_space_before_version"
         \/ r.from = "st_http_slash_version" /\ r.field = "version" /\ r.to = "st_done"
BY RowsAre DEF Is

LEMMA NotError ==
  ASSUME NEW r \in Rows, Taken(r), result' # "error"
  PROVE  r.to # "error" /\ state' = r.to /\ (r.field = "method" => rqdata'["method"] \in Implemented)
<1>1. /\ state' = r.to
      /\ \/ r.to = "st_done"
         \/ ~(r.to = "error" \/ (r.field = "method" /\ rqdata'["method"] \notin Implemented))
  BY Zenon DEF Taken
<1>2. r.to = "st_done" => r.to # "error" /\ r.field # "method"
  BY RowsAre DEF Is
<1> QED
  BY <1>1, <1>2, Zenon

LEMMA Regathered ==
  \A parts, field : (parts \cup {"method"}) \cup {field} = (parts \cup {field}) \cup {"method"}
OBVIOUS

\* The parts that have been copied when one more is.
LEMMA PartsGrow ==
  ASSUME KnownInv
  PROVE  /\ state = "st_uri" => \E before : /\ Known(before \cup {"method"})
                                           /\ before \cup {"host"} \in Sites /\ before \cup {"host"} \in Forms
         /\ state = "st_host" => \E before : Known(before \cup {"method"}) /\ before \cup {"host"} \in Sites
         /\ state = "st_port" => \E before : /\ Known(before \cup {"method"})
                                            /\ before \cup {"port"} \in Sites /\ before \cup {"port"} \in Forms
         /\ state = "st_loc" => \E before : Known(before \cup {"method"}) /\ before \cup {"loc"} \in Forms
<1>1. CASE state = "st_uri"
  <2>1. Known({"method"}) /\ {} \cup {"method"} = {"method"} /\ {} \cup {"host"} = {"host"}
    BY <1>1 DEF KnownInv
  <2>2. {"host"} \in Sites /\ {"host"} \in Forms
    BY DEF Sites, Forms
  <2> QED
    BY <1>1, <2>1, <2>2, Zenon
<1>2. CASE state = "st_host"
  <2>1. Known({"method", "schema"})
    BY <1>2 DEF KnownInv
  <2>2. {"schema"} \cup {"method"} = {"method", "schema"} /\ {"schema"} \cup {"host"} = {"schema", "host"}
    OBVIOUS
  <2>3. {"schema", "host"} \in Sites
    BY DEF Sites
  <2> QED
    BY <1>2, <2>1, <2>2, <2>3, Zenon
<1>3. CASE state = "st_port"
  <2>1. Known({"method", "host"}) \/ Known({"method", "schema", "host"})
    BY <1>3, Zenon DEF KnownInv
  <2>2. /\ {"host"} \cup {"method"} = {"method", "host"}
        /\ {"schema", "host"} \cup {"method"} = {"method", "schema", "host"}
        /\ {"host"} \cup {"port"} = {"host", "port"} /\ {"schema", "host"} \cup {"port"} = {"schema", "host", "port"}
    OBVIOUS
  <2>3. /\ {"host", "port"} \in Sites /\ {"schema", "host", "port"} \in Sites
        /\ {"host", "port"} \in Forms /\ {"schema", "host", "port"} \in Forms
    BY DEF Sites, Forms
  <2>4. CASE Known({"method", "host"})
    <3>1. Known({"host"} \cup {"method"})
      BY <2>2, <2>4, Zenon
    <3>2. {"host"} \cup {"port"} \in Sites /\ {"host"} \cup {"port"} \in Forms
      BY <2>2, <2>3, Zenon
    <3> QED
      BY <1>3, <3>1, <3>2
  <2>5. CASE Known({"method", "schema", "host"})
    <3>1. Known({"schema", "host"} \cup {"method"})
      BY <2>2, <2>5, Zenon
    <3>2. {"schema", "host"} \cup {"port"} \in Sites /\ {"schema", "host"} \cup {"port"} \in Forms
      BY <2>2, <2>3, Zenon
    <3> QED
      BY <1>3, <3>1, <3>2
  <2> QED
    BY <2>1, <2>4, <2>5, Zenon
<1>4. CASE state = "st_loc"
  <2>1. PICK before \in Sites : Known(before \cup {"method"})
    BY <1>4 DEF KnownInv
  <2>2. /\ {} \cup {"loc"} = {"loc"} /\ {"host"} \cup {"loc"} = {"host", "loc"}
        /\ {"host", "port"} \cup {"loc"} = {"host", "port", "loc"}
        /\ {"schema", "host"} \cup {"loc"} = {"schema", "host", "loc"}
        /\ {"schema", "host", "port"} \cup {"loc"} = {"schema", "host", "port", "loc"}
    OBVIOUS
  <2>3. before \cup {"loc"} \in Forms
    BY <2>2 DEF Sites, Forms
  <2> QED
    BY <1>4, <2>1, <2>3, Zenon
<1> QED
  BY <1>1, <1>2, <1>3, <1>4

LEMMA KnownKept ==
  ASSUME ParseTypes, KnownInv, LineInv, NEW r \in Rows, r.from = state, Taken(r), result' # "error"
  PROVE  KnownInv'
<1>1. r.to # "error" /\ state' = r.to /\ (r.field = "method" => rqdata'["method"] \in Implemented)
  BY NotError, Zenon
<1>2. CASE r.field = "none"
  <2>1. rqdata' = rqdata
    BY <1>2 DEF Taken
  <2>2. \/ state \in {"st_start", "st_method"} /\ state' \in {"st_start", "st_method"}
        \/ /\ state \in {"st_space_after_method", "st_uri"}
           /\ state' \in {"st_space_after_method", "st_uri", "st_colon_after_uri"}
        \/ state = "st_space_after_method" /\ state' = "st_loc"
        \/ state \in {"st_schema_slash", "st_schema_slash_slash"} /\ state' \in {"st_schema_slash_slash", "st_host"}
        \/ state = state'
        \/ state = "st_colon_before_port" /\ state' = "st_port"
        \/ /\ state \in {"st_space_before_version", "st_http_HTTP", "st_http_slash"}
           /\ state' \in {"st_http_HTTP", "st_http_slash", "st_http_slash_version"}
    BY <1>1, <1>2, RowsAre DEF Is
  <2>3. \A F : Known(F) => Known(F)'
    BY <2>1 DEF Known
  <2>4. state = "st_space_after_method" /\ state' = "st_loc" => \E parts \in Sites : Known(parts \cup {"method"})'
    <3>1. ASSUME Known({"method"}) PROVE \E parts \in Sites : Known(parts \cup {"method"})'
      <4>1. {} \in Sites /\ {} \cup {"method"} = {"method"}
        BY DEF Sites
      <4> QED
        BY <2>3, <3>1, <4>1, Zenon
    <3> QED
      BY <3>1 DEF KnownInv
  <2>5. state = "st_loc" => \E parts \in Sites : Known(parts \cup {"method"})'
    BY <2>3, Zenon DEF KnownInv
  <2>6. state \in {"st_space_before_version", "st_http_HTTP", "st_http_slash", "st_http_slash_version"} =>
          \E parts \in Forms : Known(parts \cup {"method"})'
    BY <2>3, Zenon DEF KnownInv
  <2>7. state = "st_done" => \E parts \in Forms : Known(parts \cup {"method", "version"})'
    BY <2>3, Zenon DEF KnownInv
  <2>8. /\ state' = "st_loc" => \E parts \in Sites : Known(parts \cup {"method"})'
        /\ state' \in {"st_space_before_version", "st_http_HTTP", "st_http_slash", "st_http_slash_version"} =>
             \E parts \in Forms : Known(parts \cup {"method"})'
        /\ state' = "st_done" => \E parts \in Forms : Known(parts \cup {"method", "version"})'
    BY <2>2, <2>4, <2>5, <2>6, <2>7
  <2>9. /\ state' \in {"st_start", "st_method"} => Known({})'
        /\ state' \in {"st_space_after_method", "st_uri", "st_colon_after_uri"} => Known({"method"})'
        /\ state' \in {"st_schema_slash", "st_schema_slash_slash", "st_host"} => Known({"method", "schema"})'
        /\ state' = "st_colon_before_port" => Known({"method", "schema", "host"})'
        /\ state' = "st_port" => Known({"method", "host"})' \/ Known({"method", "schema", "host"})'
    BY <2>2, <2>3 DEF KnownInv
  <2>10. /\ state' \notin {"st_start", "st_method"} => rqdata'["method"] \in Implemented
         /\ state' = "st_done" <=> rqdata'["version"] # Stale
         /\ \A f \in Fields : rqdata'[f] # <<>>
    BY <2>1, <2>2 DEF KnownInv
  <2> QED
    BY <2>8, <2>9, <2>10, Zenon DEF KnownInv
<1>3. CASE r.field # "none"
  <2>0. r.to # "error" /\ state' = r.to
    BY <1>1
  <2>1. \/ state = "st_method" /\ r.field = "method" /\ state' = "st_space_after_method"
        \/ state \in {"st_uri", "st_host"} /\ r.field = "host" /\ state' = "st_loc"
        \/ state = "st_uri" /\ r.field = "host" /\ state' = "st_space_before_version"
        \/ state = "st_colon_after_uri" /\ r.field = "schema" /\ state' = "st_schema_slash"
        \/ state = "st_colon_after_uri" /\ r.field = "host" /\ state' = "st_port"
        \/ state = "st_host" /\ r.field = "host" /\ state' = "st_colon_before_port"
        \/ state = "st_port" /\ r.field = "port" /\ state' \in {"st_loc", "st_space_before_version"}
        \/ state = "st_loc" /\ r.field = "loc" /\ state' = "st_space_before_version"
        \/ state = "st_http_slash_version" /\ r.field = "version" /\ state' = "st_done"
    BY <1>3, <2>0, CopyingRows
  <2>2. PICK w \in Seq(Tokens) : w # <<>> /\ w # Stale /\ rqdata' = [rqdata EXCEPT ![r.field] = w]
    BY <1>3, Copied
  <2>3. r.field \in Fields /\ rqdata'[r.field] = w /\ \A f \in Fields \ {r.field} : rqdata'[f] = rqdata[f]
    BY <1>3, <2>2, Copied DEF ParseTypes
  <2>4. ASSUME NEW F, Known(F) PROVE Known(F \cup {r.field})'
    <3>1. \A f \in Fields : f # r.field => (rqdata'[f] # Stale <=> f \in F \cup {r.field})
      BY <2>3, <2>4 DEF Known
    <3>2. rqdata'[r.field] # Stale /\ r.field \in F \cup {r.field}
      BY <2>2, <2>3
    <3> QED
      BY <3>1, <3>2 DEF Known
  <2>5. /\ state' = "st_space_after_method" => Known({"method"})'
        /\ state' = "st_schema_slash" => Known({"method", "schema"})'
        /\ state' = "st_colon_before_port" => Known({"method", "schema", "host"})'
        /\ state' = "st_port" => Known({"method", "host"})'
    <3>1. /\ {} \cup {"method"} = {"method"} /\ {"method"} \cup {"schema"} = {"method", "schema"}
          /\ {"method", "schema"} \cup {"host"} = {"method", "schema", "host"}
          /\ {"method"} \cup {"host"} = {"method", "host"}
      OBVIOUS
    <3>2. /\ Known({}) /\ r.field = "method" => Known({"method"})'
          /\ Known({"method"}) /\ r.field = "schema" => Known({"method", "schema"})'
          /\ Known({"method", "schema"}) /\ r.field = "host" => Known({"method", "schema", "host"})'
          /\ Known({"method"}) /\ r.field = "host" => Known({"method", "host"})'
      BY <2>4, <3>1, Zenon
    <3> QED
      BY <2>1, <3>2 DEF KnownInv
  <2>6. ASSUME state' = "st_loc" PROVE \E parts \in Sites : Known(parts \cup {"method"})'
    <3>1. \E before : Known(before \cup {"method"}) /\ before \cup {r.field} \in Sites
      BY <2>1, <2>6, PartsGrow, Zenon
    <3>2. PICK before : Known(before \cup {"method"}) /\ before \cup {r.field} \in Sites
      BY <3>1
    <3>3. Known((before \cup {"method"}) \cup {r.field})'
      BY <2>4, <3>2
    <3>4. Known((before \cup {r.field}) \cup {"method"})'
      BY <3>3, Regathered, Zenon
    <3> QED
      BY <3>2, <3>4, Zenon
  <2>7. ASSUME state' = "st_space_before_version" PROVE \E parts \in Forms : Known(parts \cup {"method"})'
    <3>1. \E before : Known(before \cup {"method"}) /\ before \cup {r.field} \in Forms
      BY <2>1, <2>7, PartsGrow, Zenon
    <3>2. PICK before : Known(before \cup {"method"}) /\ before \cup {r.field} \in Forms
      BY <3>1
    <3>3. Known((before \cup {"method"}) \cup {r.field})'
      BY <2>4, <3>2
    <3>4. Known((before \cup {r.field}) \cup {"method"})'
      BY <3>3, Regathered, Zenon
    <3> QED
      BY <3>2, <3>4, Zenon
  <2>8. ASSUME state' = "st_done" PROVE \E parts \in Forms : Known(parts \cup {"method", "version"})'
    <3>1. state = "st_http_slash_version" /\ r.field = "version"
      BY <2>1, <2>8
    <3>2. PICK parts \in Forms : Known(parts \cup {"method"})
      BY <3>1 DEF KnownInv
    <3>3. (parts \cup {"method"}) \cup {"version"} = parts \cup {"method", "version"}
      OBVIOUS
    <3> QED
      BY <2>4, <3>1, <3>2, <3>3, Zenon
  <2>9. /\ state' \notin {"st_start", "st_method"} => rqdata'["method"] \in Implemented
        /\ state' = "st_done" <=> rqdata'["version"] # Stale
        /\ \A f \in Fields : rqdata'[f] # <<>>
    BY <1>1, <2>1, <2>2, <2>3 DEF KnownInv, Fields
  <2>10. state' \in {"st_space_after_method", "st_loc", "st_space_before_version", "st_schema_slash",
                     "st_port", "st_colon_before_port", "st_done"}
    BY <2>1
  <2> QED
    BY <2>5, <2>6, <2>7, <2>8, <2>9, <2>10 DEF KnownInv
<1> QED
  BY <1>2, <1>3

LEMMA GapsAre ==
  ASSUME NEW gap
  PROVE  gap \in Gaps <=> gap \in Seq(Blank) /\ gap # <<>> /\ Len(gap) <= MaxRun + 1
<1>1. MaxRun + 1 \in Nat
  BY ParseAssumption
<1>2. \A n \in Nat : gap \in SeqOf(Blank, n) <=> gap \in Seq(Blank) /\ Len(gap) <= n
  BY SeqOfIs
<1> QED
  BY <1>1, <1>2 DEF Gaps

\* The line up to the target is a sequence of tokens.
LEMMA HeadsAre ==
  /\ Leads \subseteq Seq(Tokens) /\ Gaps \subseteq Seq(Tokens)
  /\ ParseTypes /\ rqdata["method"] # Stale => Heads \subseteq Seq(Tokens)
<1>1. \A lead \in Leads : lead \in Seq(Tokens)
  <2>1. Leads \subseteq Seq(Space)
    BY ParseAssumption, SeqOfIs DEF Leads
  <2> QED
    BY <2>1, TokensAre, SeqMonotonic
<1>2. \A gap \in Gaps : gap \in Seq(Tokens)
  <2>1. \A gap \in Gaps : gap \in Seq(Blank)
    BY GapsAre
  <2> QED
    BY <2>1, TokensAre, SeqMonotonic DEF Blank
<1>3. ASSUME ParseTypes, rqdata["method"] # Stale PROVE Heads \subseteq Seq(Tokens)
  <2>1. rqdata["method"] \in Seq(Tokens)
    BY <1>3 DEF ParseTypes, Fields
  <2>2. ASSUME NEW method \in Seq(Tokens) PROVE HeadsOf(method) \subseteq Seq(Tokens)
    <3>1. SUFFICES ASSUME NEW h \in HeadsOf(method) PROVE h \in Seq(Tokens)
      OBVIOUS
    <3>2. PICK lead \in Leads, gap \in Gaps : h = lead \o method \o gap
      BY DEF HeadsOf
    <3>3. lead \in Seq(Tokens) /\ gap \in Seq(Tokens)
      BY <1>1, <1>2, Zenon
    <3> QED
      BY <3>2, <3>3, Joined, Zenon
  <2> QED
    BY <2>1, <2>2 DEF Heads
<1> QED
  BY <1>1, <1>2, <1>3

\* What the line says does not change with the fields.
LEMMA SameSaid ==
  ASSUME rqdata' = rqdata
  PROVE  Heads' = Heads /\ Said' = Said
BY DEF Heads, Said

\* How it changes with a field that is copied.
LEMMA SaidGrows ==
  ASSUME ParseTypes, ParseTypes', NEW field \in Fields, NEW w \in Seq(Tokens),
         w # <<>>, w # Stale, rqdata' = [rqdata EXCEPT ![field] = w]
  PROVE  /\ rqdata'[field] = w
         /\ field # "method" => Heads' = Heads
         /\ field = "schema" /\ Said.host = <<>> /\ Said.port = <<>> => Site(Said') = w \o <<":", "/", "/">>
         /\ field = "host" /\ Said.host = <<>> /\ Said.port = <<>> => Site(Said') = Site(Said) \o w
         /\ field = "port" /\ Said.port = <<>> => Site(Said') = Site(Said) \o (<<":">> \o w)
         /\ field \in {"schema", "host", "port"} => Said'.loc = Said.loc
         /\ field = "loc" => Target(Said') = Site(Said) \o w
         /\ field = "version" => Said'.version = w /\ Target(Said') = Target(Said)
<1>1. rqdata'[field] = w /\ \A f \in Fields \ {field} : rqdata'[f] = rqdata[f]
  BY DEF ParseTypes
<1>2. /\ \A f \in Fields : Said[f] = IF rqdata[f] = Stale THEN <<>> ELSE rqdata[f]
      /\ \A f \in Fields : Said'[f] = IF rqdata'[f] = Stale THEN <<>> ELSE rqdata'[f]
  BY DEF Said
<1>3. Said'[field] = w /\ \A f \in Fields \ {field} : Said'[f] = Said[f]
  BY <1>1, <1>2
<1>4. /\ Said'.schema = IF field = "schema" THEN w ELSE Said.schema
      /\ Said'.host = IF field = "host" THEN w ELSE Said.host
      /\ Said'.port = IF field = "port" THEN w ELSE Said.port
      /\ Said'.loc = IF field = "loc" THEN w ELSE Said.loc
      /\ Said'.version = IF field = "version" THEN w ELSE Said.version
  BY <1>3 DEF Fields
<1>5. /\ Said.schema \in Seq(Tokens) /\ Said.host \in Seq(Tokens) /\ Said.port \in Seq(Tokens)
      /\ Said'.schema \in Seq(Tokens) /\ Said'.host \in Seq(Tokens) /\ Said'.port \in Seq(Tokens)
  BY <1>4, SaidIs
<1>6. field \in {"schema", "host", "port"} => Said'.loc = Said.loc
  BY <1>4
<1>7. field = "schema" /\ Said.host = <<>> /\ Said.port = <<>> => Site(Said') = w \o <<":", "/", "/">>
  BY <1>4, <1>5, SiteGrows
<1>8. field = "host" /\ Said.host = <<>> /\ Said.port = <<>> => Site(Said') = Site(Said) \o w
  BY <1>4, <1>5, SiteGrows
<1>9. field = "port" /\ Said.port = <<>> => Site(Said') = Site(Said) \o (<<":">> \o w)
  BY <1>4, <1>5, SiteGrows
<1>10. field \in {"loc", "version"} => Site(Said') = Site(Said)
  BY <1>4 DEF Site
<1>11. Target(Said') = Site(Said') \o Said'.loc /\ Target(Said) = Site(Said) \o Said.loc
  BY DEF Target, Site
<1>12. ASSUME field # "method" PROVE Heads' = Heads
  <2>1. rqdata'["method"] = rqdata["method"]
    BY <1>1, <1>12 DEF Fields
  <2> QED
    BY <2>1 DEF Heads
<1>13. /\ field = "loc" => Target(Said') = Site(Said) \o w
       /\ field = "version" => Said'.version = w /\ Target(Said') = Target(Said)
  BY <1>4, <1>10, <1>11
<1> QED
  BY <1>1, <1>6, <1>7, <1>8, <1>9, <1>12, <1>13

-----------------------------------------------------------------------------
(* A turn of the loop, with a token and a row of the table.                *)

Turning(t, r) ==
  /\ ParseTypes /\ ParseTypes' /\ KnownInv /\ KnownInv' /\ LineInv
  /\ t \in Tokens /\ text' = Append(text, t)
  /\ r \in Rows /\ r.from = state /\ t \in r.on /\ Taken(r) /\ result' # "error"

LEMMA TurnRow ==
  ASSUME NEW t, NEW r, Turning(t, r)
  PROVE  r \in Rows /\ r.from = state /\ t \in r.on /\ state' = r.to /\ r.to # "error"
BY NotError, Zenon DEF Turning

LEMMA TextGrows ==
  ASSUME NEW t, NEW r, Turning(t, r)
  PROVE  /\ t \in Tokens /\ <<t>> \in Seq(Tokens) /\ text \in Seq(Tokens) /\ Len(text) \in Nat
         /\ text' = Append(text, t) /\ text' = text \o <<t>> /\ Len(text') = Len(text) + 1
<1>1. t \in Tokens /\ text \in Seq(Tokens) /\ text' = Append(text, t)
  BY DEF Turning, ParseTypes
<1>2. <<t>> \in Seq(Tokens)
  BY <1>1
<1> QED
  BY <1>1, <1>2, AppendIsConcat, AppendProperties, LenProperties

LEMMA TurnIs ==
  ASSUME NEW t, NEW r, Turning(t, r)
  PROVE  /\ t \in Tokens /\ <<t>> \in Seq(Tokens) /\ text \in Seq(Tokens)
         /\ text' = Append(text, t) /\ text' = text \o <<t>>
         /\ Run \in Seq(Tokens)
         /\ end' = IF "end" \in r.marks THEN Len(text) ELSE end
         /\ "start" \notin r.marks => start' = start
         /\ "start" \in r.marks => \E b \in Seq(Tokens) : b = text /\ Running(b)'
         /\ "start" \notin r.marks => \A b \in Seq(Tokens) : Running(b) => Running(b)'
<1>1. /\ t \in Tokens /\ text \in Seq(Tokens) /\ text' = Append(text, t)
      /\ end' = IF "end" \in r.marks THEN Len(text) ELSE end
      /\ start' = IF "start" \in r.marks THEN Len(text) + 1 ELSE start
  BY DEF Turning, Taken, ParseTypes
<1>2. <<t>> \in Seq(Tokens) /\ text' = text \o <<t>>
  BY <1>1, AppendIsConcat
<1>3. Run \in Seq(Tokens)
  BY <1>1, PieceIs, LenProperties DEF Run, Turning
<1>4. ASSUME "start" \in r.marks PROVE \E b \in Seq(Tokens) : b = text /\ Running(b)'
  <2>1. PICK b \in Seq(Tokens) : b = text
    BY <1>1
  <2>2. Running(b)'
    BY <1>1, <1>4, <2>1, RunBegins
  <2> QED
    BY <2>1, <2>2
<1>5. ASSUME "start" \notin r.marks, NEW b \in Seq(Tokens), Running(b) PROVE Running(b)'
  BY <1>1, <1>3, <1>5, RunTurns
<1> QED
  BY <1>1, <1>2, <1>3, <1>4, <1>5

\* What is known of the head and the target in a state, and what is kept
\* when no field is copied.
LEMMA HeadIs ==
  ASSUME NEW t, NEW r, Turning(t, r)
  PROVE  /\ state \notin {"st_start", "st_method"} => Heads \subseteq Seq(Tokens)
         /\ Site(Said) \in Seq(Tokens) /\ Target(Said) \in Seq(Tokens)
         /\ r.field = "none" => Heads' = Heads /\ Said' = Said /\ rqdata' = rqdata
<1>1. ParseTypes /\ (state \notin {"st_start", "st_method"} => rqdata["method"] # Stale)
  <2>1. Stale \notin Implemented
    BY TokensAre
  <2> QED
    BY <2>1 DEF Turning, KnownInv
<1>2. r.field = "none" => rqdata' = rqdata
  BY DEF Turning, Taken
<1> QED
  BY <1>1, <1>2, HeadsAre, SaidIs, SameSaid

LEMMA StartTurns ==
  ASSUME NEW t, NEW r, Turning(t, r), state = "st_start",
         t \in Space => Len(text) - start < MaxRun - 1
  PROVE  LineInv'
<1>1. start = 1 /\ text \in Leads /\ text \in Seq(Space) /\ Len(text) \in Nat
  <2>1. start = 1 /\ text \in Leads
    BY DEF Turning, LineInv
  <2> QED
    BY <2>1, ParseAssumption, SeqOfIs, LenProperties DEF Leads
<1>2. \/ state' = "st_start" /\ t \in Space /\ "start" \notin r.marks
      \/ state' = "st_method" /\ "start" \in r.marks
  BY TurnRow, RowsAre DEF Is
<1>3. CASE state' = "st_start" /\ t \in Space /\ "start" \notin r.marks
  <2>1. text' \in Seq(Space) /\ Len(text') = Len(text) + 1
    <3>1. Append(text, t) \in Seq(Space) /\ Len(Append(text, t)) = Len(text) + 1
      BY <1>1, <1>3, AppendProperties
    <3> QED
      BY <3>1, TurnIs
  <2>2. text' \in Leads
    BY <1>1, <1>3, <2>1, ParseAssumption, SeqOfIs DEF Leads
  <2> QED
    BY <1>1, <1>3, <2>2, TurnIs DEF LineInv
<1>4. CASE state' = "st_method" /\ "start" \in r.marks
  <2>1. PICK b \in Seq(Tokens) : b = text /\ Running(b)'
    BY <1>4, TurnIs
  <2> QED
    BY <1>1, <1>4, <2>1 DEF LineInv
<1> QED
  BY <1>2, <1>3, <1>4

LEMMA MethodTurns ==
  ASSUME NEW t, NEW r, Turning(t, r), state = "st_method"
  PROVE  LineInv'
<1>1. PICK lead \in Leads : Running(lead)
  BY DEF Turning, LineInv
<1>2. lead \in Seq(Tokens)
  BY HeadsAre
<1>3. \/ state' = "st_method" /\ "start" \notin r.marks
      \/ state' = "st_space_after_method" /\ t = "SP" /\ "start" \notin r.marks /\ r.field = "method"
  BY TurnRow, RowsAre DEF Is
<1>4. CASE state' = "st_method" /\ "start" \notin r.marks
  BY <1>1, <1>2, <1>4, TurnIs DEF LineInv
<1>5. CASE state' = "st_space_after_method" /\ t = "SP" /\ "start" \notin r.marks /\ r.field = "method"
  <2>1. PICK w \in Seq(Tokens) : w = Run /\ rqdata'["method"] = w
    BY <1>5, Copied DEF Turning, ParseTypes
  <2>2. PICK gap \in Gaps : gap = <<t>>
    <3>1. t \in Blank
      BY <1>5 DEF Blank
    <3>2. <<t>> \in Seq(Blank) /\ Len(<<t>>) = 1 /\ <<t>> # <<>>
      BY <3>1, Pairs
    <3>3. Len(<<t>>) <= MaxRun + 1
      BY <3>2, ParseAssumption
    <3>4. <<t>> \in Gaps
      BY <3>2, <3>3, GapsAre
    <3> QED
      BY <3>4
  <2>3. start' = Len(lead) + 1 /\ text' = lead \o w \o gap
    BY <1>1, <1>5, <2>1, <2>2, TurnIs DEF Running
  <2> QED
    BY <1>5, <2>1, <2>3 DEF LineInv
<1> QED
  BY <1>3, <1>4, <1>5

\* A field that is not copied says nothing.
LEMMA NothingSaid ==
  ASSUME ParseTypes
  PROVE  /\ rqdata["schema"] = Stale => Said.schema = <<>>
         /\ rqdata["host"] = Stale => Said.host = <<>>
         /\ rqdata["port"] = Stale => Said.port = <<>>
         /\ rqdata["loc"] = Stale => Said.loc = <<>> /\ Target(Said) = Site(Said)
         /\ Known({"method"}) => Site(Said) = <<>>
<1>1. /\ rqdata["schema"] = Stale => Said.schema = <<>>
      /\ rqdata["host"] = Stale => Said.host = <<>>
      /\ rqdata["port"] = Stale => Said.port = <<>>
      /\ rqdata["loc"] = Stale => Said.loc = <<>>
  BY DEF Said, Fields
<1>2. Said.loc = <<>> => Target(Said) = Site(Said)
  <2>1. PICK site \in Seq(Tokens) : site = Site(Said)
    BY SaidIs
  <2>2. site \o <<>> = site
    BY ConcatEmptySeq
  <2> QED
    BY <2>1, <2>2, SaidIs
<1>3. Known({"method"}) => Site(Said) = <<>>
  <2>1. /\ Said.schema \in Seq(Tokens) /\ Said.host \in Seq(Tokens) /\ Said.port \in Seq(Tokens)
        /\ Known({"method"}) => Said.schema = <<>> /\ Said.host = <<>> /\ Said.port = <<>>
    BY <1>1, SaidIs DEF Known, Fields
  <2> QED
    BY <2>1, SiteGrows
<1> QED
  BY <1>1, <1>2, <1>3

LEMMA HeadIsOne ==
  ASSUME NEW lead \in Leads, NEW gap \in Gaps, NEW method
  PROVE  lead \o method \o gap \in HeadsOf(method)
BY DEF HeadsOf

\* The target begins: nothing is said yet.
LEMMA AfterMethodTurns ==
  ASSUME NEW t, NEW r, Turning(t, r), state = "st_space_after_method",
         t = "SP" => Len(text) - start < MaxRun + 1
  PROVE  LineInv'
<1>1. PICK lead \in Leads, gap \in Gaps : start = Len(lead) + 1 /\ text = lead \o rqdata["method"] \o gap
  BY DEF Turning, LineInv
<1>2. PICK method \in Seq(Tokens) : method = rqdata["method"] /\ Len(method) = 1
  BY TokensAre DEF Turning, KnownInv
<1>3. /\ lead \in Seq(Tokens) /\ gap \in Seq(Tokens) /\ lead \o method \in Seq(Tokens)
      /\ text = lead \o method \o gap
  BY <1>1, <1>2, HeadsAre, ConcatProperties
<1>4. \/ state' = "st_space_after_method" /\ t = "SP" /\ "start" \notin r.marks /\ r.field = "none"
      \/ state' \in {"st_loc", "st_uri"} /\ "start" \in r.marks /\ r.field = "none"
  BY TurnRow, RowsAre DEF Is
<1>5. Heads' = Heads /\ Said' = Said /\ rqdata' = rqdata
  BY <1>4, HeadIs
<1>6. CASE state' = "st_space_after_method" /\ t = "SP" /\ "start" \notin r.marks
  <2>1. Append(gap, t) \in Gaps
    <3>1. Len(lead \o method) = Len(lead) + 1 /\ Len(text) = Len(lead) + 1 + Len(gap)
      <4>1. Len(lead \o method) = Len(lead) + 1
        <5>1. Len(lead \o method) = Len(lead) + Len(method)
          BY <1>3, ConcatProperties
        <5> QED
          BY <1>2, <5>1
      <4>2. Len((lead \o method) \o gap) = Len(lead \o method) + Len(gap)
        BY <1>3, ConcatProperties
      <4> QED
        BY <1>3, <4>1, <4>2
    <3>2. gap \in Seq(Blank) /\ Len(gap) \in Nat /\ Len(lead) \in Nat
      BY <1>3, GapsAre, LenProperties
    <3>3. Len(gap) + 1 <= MaxRun + 1
      BY <1>1, <1>6, <3>1, <3>2, ParseAssumption
    <3>4. Append(gap, t) \in Seq(Blank) /\ Append(gap, t) # <<>> /\ Len(Append(gap, t)) = Len(gap) + 1
      BY <1>6, <3>2, AppendProperties DEF Blank
    <3> QED
      BY <3>3, <3>4, GapsAre
  <2>2. text' = lead \o method \o Append(gap, t)
    <3>1. t \in Tokens /\ text' = Append(text, t)
      BY TurnIs
    <3>2. Append((lead \o method) \o gap, t) = (lead \o method) \o Append(gap, t)
      BY <1>3, <3>1, OneMore
    <3> QED
      BY <1>3, <3>1, <3>2
  <2> QED
    BY <1>1, <1>2, <1>5, <1>6, <2>1, <2>2, TurnIs DEF LineInv
<1>7. CASE state' \in {"st_loc", "st_uri"} /\ "start" \in r.marks
  <2>1. PICK b \in Seq(Tokens) : b = text /\ Running(b)'
    BY <1>7, TurnIs
  <2>2. b \in Heads
    <3>1. b = lead \o method \o gap
      BY <1>1, <1>2, <2>1
    <3>2. lead \o method \o gap \in HeadsOf(method)
      BY HeadIsOne
    <3> QED
      BY <1>2, <3>1, <3>2 DEF Heads
  <2>3. Site(Said) = <<>>
    BY NothingSaid DEF Turning, KnownInv
  <2>4. b = b \o Site(Said')
    BY <1>5, <2>3, ConcatEmptySeq
  <2> QED
    BY <1>5, <1>7, <2>1, <2>2, <2>4 DEF LineInv, Running
<1> QED
  BY <1>4, <1>6, <1>7

\* When the host is copied, the line is the head and what is said.
LEMMA HostCopied ==
  ASSUME NEW t, NEW r, Turning(t, r), NEW h \in Heads, NEW w \in Seq(Tokens), w # <<>>, w # Stale,
         rqdata' = [rqdata EXCEPT !["host"] = w], text = h \o Site(Said) \o w,
         state \in {"st_uri", "st_colon_after_uri", "st_host"}
  PROVE  /\ h \in Heads' /\ h \in Seq(Tokens) /\ Site(Said') \in Seq(Tokens)
         /\ text = h \o Site(Said') /\ Target(Said') = Site(Said')
<1>1. Said.host = <<>> /\ Said.port = <<>> /\ Said.loc = <<>>
  BY NothingSaid DEF Turning, KnownInv, Known, Fields
<1>2. /\ ParseTypes /\ ParseTypes' /\ "host" \in Fields /\ "host" # "method"
      /\ "host" \in {"schema", "host", "port"}
  BY DEF Turning, Fields
<1>3. Heads' = Heads /\ Site(Said') = Site(Said) \o w /\ Said'.loc = Said.loc
  BY <1>1, <1>2, SaidGrows
<1>4. h \in Seq(Tokens) /\ Site(Said) \in Seq(Tokens)
  BY HeadIs
<1>5. PICK site \in Seq(Tokens) : site = Site(Said)
  BY <1>4
<1>6. site \o w \in Seq(Tokens) /\ h \o (site \o w) = (h \o site) \o w /\ (site \o w) \o <<>> = site \o w
  <2>1. site \o w \in Seq(Tokens)
    BY ConcatProperties
  <2>2. h \o (site \o w) = (h \o site) \o w
    <3>1. Regrouped(h, site, w)
      BY <1>4, Regroup, Zenon
    <3> QED
      BY <3>1, Zenon DEF Regrouped
  <2>3. (site \o w) \o <<>> = site \o w
    BY <2>1, ConcatEmptySeq
  <2> QED
    BY <2>1, <2>2, <2>3
<1>7. Target(Said') = Site(Said') \o Said'.loc
  BY DEF Target, Site
<1>8. text = (h \o site) \o w /\ Site(Said') = site \o w
  BY <1>3, <1>5
<1>9. text = h \o Site(Said') /\ Site(Said') \in Seq(Tokens)
  BY <1>6, <1>8
<1>10. Target(Said') = Site(Said')
  <2>1. Target(Said') = (site \o w) \o <<>>
    BY <1>1, <1>3, <1>7, <1>8
  <2> QED
    BY <1>6, <1>8, <2>1
<1> QED
  BY <1>3, <1>4, <1>9, <1>10

\* Names: what may be a schema or a host, and then a host.
LEMMA NameTurns ==
  ASSUME NEW t, NEW r, Turning(t, r), state \in {"st_uri", "st_host"}
  PROVE  LineInv'
<1>1. PICK h \in Heads : Running(h \o Site(Said))
  BY DEF Turning, LineInv
<1>2. h \in Seq(Tokens) /\ Site(Said) \in Seq(Tokens) /\ Run \in Seq(Tokens) /\ t \in Tokens
  BY HeadIs, TurnIs
<1>3. PICK b \in Seq(Tokens) : b = h \o Site(Said) /\ Running(b)
  BY <1>1, <1>2, ConcatProperties
<1>4. \/ state' = state /\ "start" \notin r.marks /\ r.field = "none"
      \/ /\ state = "st_uri" /\ state' = "st_colon_after_uri" /\ t = ":" /\ r.field = "none"
         /\ "start" \notin r.marks /\ "end" \in r.marks
      \/ state' = "st_loc" /\ "start" \in r.marks /\ r.field = "host"
      \/ state' = "st_space_before_version" /\ t = "SP" /\ r.field = "host"
      \/ state' = "st_colon_before_port" /\ t = ":" /\ r.field = "host"
  BY TurnRow, RowsAre DEF Is
<1>5. CASE state' = state /\ "start" \notin r.marks /\ r.field = "none"
  <2>1. Running(b)'
    BY <1>3, <1>5, TurnIs
  <2>2. Heads' = Heads /\ Said' = Said
    BY <1>5, HeadIs
  <2>3. h \in Heads' /\ b = h \o Site(Said')
    BY <1>3, <2>2
  <2> QED
    BY <1>5, <2>1, <2>3 DEF LineInv, Running
<1>6. CASE /\ state = "st_uri" /\ state' = "st_colon_after_uri" /\ t = ":" /\ r.field = "none"
           /\ "start" \notin r.marks /\ "end" \in r.marks
  <2>1. b = h
    BY <1>2, <1>3, <1>6, NothingSaid, ConcatEmptySeq DEF Turning, KnownInv
  <2>2. PICK w \in Seq(Tokens) : w = Run /\ w # <<>> /\ text = h \o w /\ start = Len(h) + 1
    BY <1>2, <1>3, <2>1 DEF Running
  <2>3. start' = start /\ end' = Len(text) /\ text' = text \o <<t>> /\ <<t>> \in Seq(Tokens)
    BY <1>6, TurnIs
  <2>4. Len(text) = Len(h) + Len(w) /\ Len(h) \in Nat /\ Len(w) \in Nat /\ Len(w) # 0
    BY <1>2, <2>2, ConcatProperties, LenProperties, EmptySeq
  <2>5. start \in 1 .. Len(text) /\ Len(text) \in 1 .. Len(text) /\ text \in Seq(Tokens)
    <3>1. start = Len(h) + 1
      BY <2>2
    <3>2. start \in 1 .. Len(text) /\ Len(text) \in 1 .. Len(text)
      BY <2>4, <3>1
    <3> QED
      BY <3>2, TextGrows
  <2>6. SubSeq(text \o <<t>>, start, Len(text)) = SubSeq(text, start, Len(text))
    BY <2>3, <2>5, SubSeqOfConcat1
  <2>7. SubSeq(text', start', end') = w
    BY <2>2, <2>3, <2>6 DEF Run
  <2>8. Len(text') = Len(text) + 1
    BY TextGrows
  <2>9. h \in Heads' /\ start' = Len(h) + 1 /\ end' \in start' .. Len(text')
    BY <1>6, <2>2, <2>3, <2>5, <2>8, HeadIs
  <2>10. text' = h \o SubSeq(text', start', end') \o <<":">>
    BY <1>6, <2>2, <2>3, <2>7
  <2> QED
    BY <1>6, <2>9, <2>10 DEF LineInv
<1>7. CASE r.field = "host"
  <2>1. PICK w \in Seq(Tokens) : w = Run /\ w # <<>> /\ w # Stale /\ rqdata' = [rqdata EXCEPT !["host"] = w]
    BY <1>7, TurnRow, Copied DEF Turning
  <2>2. text = h \o Site(Said) \o w
    BY <1>3, <2>1 DEF Running
  <2>3. /\ h \in Heads' /\ Site(Said') \in Seq(Tokens)
        /\ text = h \o Site(Said') /\ Target(Said') = Site(Said')
    BY <2>1, <2>2, HostCopied
  <2>4. CASE state' = "st_loc" /\ "start" \in r.marks
    <3>1. PICK c \in Seq(Tokens) : c = text /\ Running(c)'
      BY <2>4, TurnIs
    <3> QED
      BY <2>3, <2>4, <3>1 DEF LineInv, Running
  <2>5. CASE state' \in {"st_space_before_version", "st_colon_before_port"}
    <3>1. text' = text \o <<t>>
      BY TextGrows
    <3> QED
      BY <1>4, <2>3, <2>5, <3>1 DEF LineInv
  <2> QED
    BY <1>4, <1>7, <2>4, <2>5
<1> QED
  BY <1>4, <1>5, <1>6, <1>7

\* What came before the colon was a schema or a host.
LEMMA ColonTurns ==
  ASSUME NEW t, NEW r, Turning(t, r), state = "st_colon_after_uri"
  PROVE  LineInv'
<1>1. PICK h \in Heads : text = h \o SubSeq(text, start, end) \o <<":">>
  BY DEF Turning, LineInv
<1>2. \/ state' = "st_schema_slash" /\ t = "/" /\ r.field = "schema"
      \/ state' = "st_port" /\ "start" \in r.marks /\ r.field = "host"
  BY TurnRow, RowsAre DEF Is
<1>3. PICK w \in Seq(Tokens) : /\ w # <<>> /\ w # Stale /\ rqdata' = [rqdata EXCEPT ![r.field] = w]
                               /\ w = SubSeq(text, start, end)
  BY <1>2, TurnRow, Copied DEF Turning
<1>4. h \in Seq(Tokens) /\ <<":">> \in Seq(Tokens) /\ <<"/">> \in Seq(Tokens) /\ Site(Said) = <<>>
  <2>1. ":" \in Tokens /\ "/" \in Tokens
    BY TokensAre
  <2> QED
    <3>1. Known({"method"})
      BY DEF Turning, KnownInv
    <3> QED
      BY <2>1, <3>1, HeadIs, NothingSaid DEF Turning
<1>5. text = h \o w \o <<":">> /\ h \o w \in Seq(Tokens)
  BY <1>1, <1>3, <1>4, ConcatProperties
<1>6. CASE state' = "st_schema_slash" /\ t = "/" /\ r.field = "schema"
  <2>1. Heads' = Heads /\ rqdata'["schema"] = w
    BY <1>3, <1>6, SaidGrows DEF Turning, Fields
  <2>2. text' = h \o w \o <<":">> \o <<"/">>
    BY <1>5, <1>6, TextGrows
  <2>3. (h \o w) \o <<":">> \o <<"/">> = (h \o w) \o (<<":">> \o <<"/">>)
    <3>1. Regrouped(h \o w, <<":">>, <<"/">>)
      BY <1>4, <1>5, Regroup, Zenon
    <3> QED
      BY <3>1, Zenon DEF Regrouped
  <2>4. text' = h \o w \o <<":", "/">>
    BY <2>2, <2>3, TokensAre
  <2> QED
    BY <1>6, <2>1, <2>4 DEF LineInv
<1>7. CASE state' = "st_port" /\ "start" \in r.marks /\ r.field = "host"
  <2>1. PICK c \in Seq(Tokens) : c = text /\ Running(c)'
    BY <1>7, TurnIs
  <2>2. Heads' = Heads /\ Site(Said') = w
    <3>1. Said.host = <<>> /\ Said.port = <<>>
      BY NothingSaid DEF Turning, KnownInv, Known, Fields
    <3>2. Heads' = Heads /\ Site(Said') = Site(Said) \o w
      BY <1>3, <1>7, <3>1, SaidGrows DEF Turning, Fields
    <3> QED
      BY <1>4, <3>2, ConcatEmptySeq
  <2>3. c = h \o Site(Said') \o <<":">>
    BY <1>5, <2>1, <2>2
  <2> QED
    BY <1>7, <2>1, <2>2, <2>3 DEF LineInv, Running
<1> QED
  BY <1>2, <1>6, <1>7

LEMMA SchemaTurns ==
  ASSUME NEW t, NEW r, Turning(t, r), state \in {"st_schema_slash", "st_schema_slash_slash"}
  PROVE  LineInv'
<1>1. \/ /\ state = "st_schema_slash" /\ state' = "st_schema_slash_slash" /\ t = "/" /\ r.field = "none"
      \/ /\ state = "st_schema_slash_slash" /\ state' = "st_host" /\ "start" \in r.marks /\ r.field = "none"
  BY TurnRow, RowsAre DEF Is
<1>2. Heads' = Heads /\ Said' = Said /\ rqdata' = rqdata
  BY <1>1, HeadIs
<1>3. CASE state = "st_schema_slash" /\ state' = "st_schema_slash_slash" /\ t = "/"
  <2>1. PICK h \in Heads : text = h \o rqdata["schema"] \o <<":", "/">>
    BY <1>3 DEF Turning, LineInv
  <2>2. PICK w \in Seq(Tokens) : w = rqdata["schema"] /\ w # <<>> /\ w # Stale
    BY <1>3 DEF Turning, KnownInv, Known, ParseTypes, Fields
  <2>3. Site(Said) = w \o <<":", "/", "/">>
    <3>1. Said.schema = w /\ Said.host = <<>> /\ Said.port = <<>>
      BY <1>3, <2>2, NothingSaid DEF Turning, KnownInv, Known, Fields, Said
    <3> QED
      BY <2>2, <3>1, SaidIs, SiteGrows DEF Turning
  <2>4. h \in Seq(Tokens) /\ <<":", "/">> \in Seq(Tokens) /\ <<"/">> \in Seq(Tokens)
    <3>1. "/" \in Tokens
      BY TokensAre
    <3> QED
      BY <1>3, <3>1, HeadIs, TokensAre
  <2>5. PICK u \in Seq(Tokens), v \in Seq(Tokens) : u = <<":", "/">> /\ v = <<"/">> /\ u \o v = <<":", "/", "/">>
    BY <2>4, TokensAre
  <2>6. h \o w \o u \o v = h \o (w \o (u \o v))
    <3>1. PICK g \in Seq(Tokens) : g = h
      BY <2>4
    <3>2. FourParts(g, w, u, v)
      BY RegroupFour, Zenon
    <3> QED
      BY <3>1, <3>2, Zenon DEF FourParts
  <2>7. text' = h \o w \o u \o v
    BY <1>3, <2>1, <2>2, <2>5, TextGrows
  <2>8. text' = h \o Site(Said')
    BY <1>2, <2>3, <2>5, <2>6, <2>7
  <2> QED
    BY <1>2, <1>3, <2>8 DEF LineInv
<1>4. CASE state = "st_schema_slash_slash" /\ state' = "st_host" /\ "start" \in r.marks
  <2>1. PICK h \in Heads : text = h \o Site(Said)
    BY <1>4 DEF Turning, LineInv
  <2>2. PICK c \in Seq(Tokens) : c = text /\ Running(c)'
    BY <1>4, TurnIs
  <2>3. h \in Heads' /\ c = h \o Site(Said')
    BY <1>2, <2>1, <2>2
  <2> QED
    BY <1>4, <2>2, <2>3 DEF LineInv, Running
<1> QED
  BY <1>1, <1>3, <1>4

LEMMA PortTurns ==
  ASSUME NEW t, NEW r, Turning(t, r), state \in {"st_colon_before_port", "st_port"}
  PROVE  LineInv'
<1>1. \/ state = "st_colon_before_port" /\ state' = "st_port" /\ "start" \in r.marks /\ r.field = "none"
      \/ state = "st_port" /\ state' = "st_port" /\ "start" \notin r.marks /\ r.field = "none"
      \/ state = "st_port" /\ state' = "st_loc" /\ "start" \in r.marks /\ r.field = "port"
      \/ state = "st_port" /\ state' = "st_space_before_version" /\ t = "SP" /\ r.field = "port"
  BY TurnRow, RowsAre DEF Is
<1>2. Heads \subseteq Seq(Tokens) /\ Site(Said) \in Seq(Tokens) /\ <<":">> \in Seq(Tokens)
  BY <1>1, HeadIs, TokensAre
<1>3. CASE state = "st_colon_before_port" /\ state' = "st_port" /\ "start" \in r.marks /\ r.field = "none"
  <2>1. PICK h \in Heads : text = h \o Site(Said) \o <<":">>
    BY <1>3 DEF Turning, LineInv
  <2>2. PICK c \in Seq(Tokens) : c = text /\ Running(c)'
    BY <1>3, TurnIs
  <2>3. h \in Heads' /\ c = h \o Site(Said') \o <<":">>
    BY <1>3, <2>1, <2>2, HeadIs
  <2> QED
    BY <1>3, <2>2, <2>3 DEF LineInv, Running
<1>4. ASSUME state = "st_port"
      PROVE  /\ "start" \notin r.marks /\ r.field = "none" /\ state' = "st_port" => LineInv'
             /\ r.field = "port" /\ state' = "st_loc" /\ "start" \in r.marks => LineInv'
             /\ r.field = "port" /\ state' = "st_space_before_version" /\ t = "SP" => LineInv'
  <2>1. PICK h \in Heads : Running(h \o Site(Said) \o <<":">>)
    BY <1>4 DEF Turning, LineInv
  <2>2. PICK g \in Seq(Tokens), site \in Seq(Tokens), colon \in Seq(Tokens) :
          g = h /\ site = Site(Said) /\ colon = <<":">>
    BY <1>2
  <2>3. PICK b \in Seq(Tokens) : b = g \o site \o colon /\ Running(b)
    BY <2>1, <2>2, ConcatProperties
  <2>4. ASSUME "start" \notin r.marks, r.field = "none", state' = "st_port" PROVE LineInv'
    <3>1. Running(b)'
      BY <2>3, <2>4, TurnIs
    <3>2. h \in Heads' /\ b = h \o Site(Said') \o <<":">>
      BY <2>2, <2>3, <2>4, HeadIs
    <3> QED
      BY <2>4, <3>1, <3>2 DEF LineInv, Running
  <2>5. ASSUME r.field = "port"
        PROVE  /\ h \in Heads' /\ Site(Said') \in Seq(Tokens) /\ Target(Said') = Site(Said')
               /\ text = h \o Site(Said')
    <3>1. PICK w \in Seq(Tokens) : w = Run /\ w # <<>> /\ w # Stale /\ rqdata' = [rqdata EXCEPT !["port"] = w]
      BY <1>4, <2>5, TurnRow, Copied DEF Turning
    <3>2. Said.port = <<>> /\ Said.loc = <<>>
      BY <1>4, NothingSaid DEF Turning, KnownInv, Known, Fields
    <3>3. Heads' = Heads /\ Site(Said') = Site(Said) \o (<<":">> \o w) /\ Said'.loc = Said.loc
      BY <3>1, <3>2, SaidGrows DEF Turning, Fields
    <3>4. PICK new \in Seq(Tokens) : new = site \o (colon \o w)
      BY ConcatProperties
    <3>6. Site(Said') = new
      BY <2>2, <3>3, <3>4
    <3>7. Target(Said') = new
      <4>1. Said'.loc = <<>> /\ Target(Said') = new \o Said'.loc
        BY <3>2, <3>3, <3>6 DEF Target, Site
      <4> QED
        BY <4>1, ConcatEmptySeq
    <3>8. text = g \o new
      <4>1. text = ((g \o site) \o colon) \o w
        BY <2>3, <3>1 DEF Running
      <4>2. FourParts(g, site, colon, w)
        BY RegroupFour, Zenon
      <4> QED
        BY <3>4, <4>1, <4>2, Zenon DEF FourParts
    <3> QED
      BY <2>2, <3>3, <3>6, <3>7, <3>8
  <2>6. ASSUME r.field = "port", state' = "st_loc", "start" \in r.marks PROVE LineInv'
    <3>1. PICK c \in Seq(Tokens) : c = text /\ Running(c)'
      BY <2>6, TurnIs
    <3> QED
      BY <2>5, <2>6, <3>1 DEF LineInv, Running
  <2>7. ASSUME r.field = "port", state' = "st_space_before_version", t = "SP" PROVE LineInv'
    <3>1. text' = text \o <<t>>
      BY TextGrows
    <3> QED
      BY <2>5, <2>7, <3>1 DEF LineInv
  <2> QED
    BY <2>4, <2>6, <2>7
<1> QED
  BY <1>1, <1>3, <1>4

LEMMA LocTurns ==
  ASSUME NEW t, NEW r, Turning(t, r), state = "st_loc"
  PROVE  LineInv'
<1>1. \/ state' = "st_loc" /\ "start" \notin r.marks /\ r.field = "none"
      \/ state' = "st_space_before_version" /\ t = "SP" /\ r.field = "loc"
  BY TurnRow, RowsAre DEF Is
<1>2. PICK h \in Heads : Running(h \o Site(Said))
  BY DEF Turning, LineInv
<1>3. h \in Seq(Tokens) /\ Site(Said) \in Seq(Tokens)
  BY HeadIs
<1>4. PICK b \in Seq(Tokens) : b = h \o Site(Said) /\ Running(b)
  BY <1>2, <1>3, ConcatProperties
<1>5. CASE state' = "st_loc" /\ "start" \notin r.marks /\ r.field = "none"
  <2>1. Running(b)'
    BY <1>4, <1>5, TurnIs
  <2>2. h \in Heads' /\ b = h \o Site(Said')
    BY <1>4, <1>5, HeadIs
  <2> QED
    BY <1>5, <2>1, <2>2 DEF LineInv, Running
<1>6. CASE state' = "st_space_before_version" /\ t = "SP" /\ r.field = "loc"
  <2>1. PICK w \in Seq(Tokens) : w = Run /\ w # <<>> /\ w # Stale /\ rqdata' = [rqdata EXCEPT !["loc"] = w]
    BY <1>6, TurnRow, Copied DEF Turning
  <2>2. Heads' = Heads /\ Target(Said') = Site(Said) \o w
    BY <2>1, SaidGrows DEF Turning, Fields
  <2>3. PICK site \in Seq(Tokens) : site = Site(Said)
    BY <1>3
  <2>4. text = h \o Target(Said')
    <3>1. PICK g \in Seq(Tokens) : g = h
      BY <1>3
    <3>2. Regrouped(g, site, w)
      BY Regroup, Zenon
    <3>3. text = b \o w
      BY <1>4, <2>1 DEF Running
    <3> QED
      BY <1>4, <2>2, <2>3, <3>1, <3>2, <3>3, Zenon DEF Regrouped
  <2>5. state' = "st_space_before_version" /\ t = "SP"
    BY <1>6
  <2>6. text' = text \o <<t>>
    BY TextGrows
  <2> QED
    BY <2>2, <2>4, <2>5, <2>6 DEF LineInv
<1> QED
  BY <1>1, <1>5, <1>6

LEMMA VersionTurns ==
  ASSUME NEW t, NEW r, Turning(t, r),
         state \in {"st_space_before_version", "st_http_HTTP", "st_http_slash", "st_http_slash_version"}
  PROVE  LineInv'
<1>1. \/ state = "st_space_before_version" /\ state' = "st_http_HTTP" /\ "start" \in r.marks /\ r.field = "none"
      \/ /\ state # "st_space_before_version" /\ "start" \notin r.marks /\ r.field = "none"
         /\ state' \in {"st_http_slash", "st_http_slash_version"}
      \/ /\ state = "st_http_slash_version" /\ state' = "st_done" /\ t \in Space /\ r.field = "version"
  BY TurnRow, RowsAre DEF Is
<1>2. Heads \subseteq Seq(Tokens) /\ Target(Said) \in Seq(Tokens) /\ <<"SP">> \in Seq(Tokens)
  BY HeadIs, TokensAre
<1>3. CASE state = "st_space_before_version" /\ state' = "st_http_HTTP" /\ "start" \in r.marks /\ r.field = "none"
  <2>1. PICK h \in Heads : text = h \o Target(Said) \o <<"SP">>
    BY <1>3 DEF Turning, LineInv
  <2>2. PICK c \in Seq(Tokens) : c = text /\ Running(c)'
    BY <1>3, TurnIs
  <2>3. h \in Heads' /\ c = h \o Target(Said') \o <<"SP">>
    BY <1>3, <2>1, <2>2, HeadIs
  <2> QED
    BY <1>3, <2>2, <2>3 DEF LineInv, Running
<1>4. ASSUME state # "st_space_before_version"
      PROVE  \E h \in Heads, b \in Seq(Tokens) : b = h \o Target(Said) \o <<"SP">> /\ Running(b)
  <2>1. PICK h \in Heads : Running(h \o Target(Said) \o <<"SP">>)
    BY <1>4 DEF Turning, LineInv
  <2>2. h \o Target(Said) \o <<"SP">> \in Seq(Tokens)
    BY <1>2, ConcatProperties
  <2> QED
    BY <2>1, <2>2
<1>5. CASE /\ state # "st_space_before_version" /\ "start" \notin r.marks /\ r.field = "none"
           /\ state' \in {"st_http_slash", "st_http_slash_version"}
  <2>1. PICK h \in Heads, b \in Seq(Tokens) : b = h \o Target(Said) \o <<"SP">> /\ Running(b)
    BY <1>4, <1>5
  <2>2. Running(b)'
    BY <1>5, <2>1, TurnIs
  <2>3. h \in Heads' /\ b = h \o Target(Said') \o <<"SP">>
    BY <1>5, <2>1, HeadIs
  <2> QED
    BY <1>5, <2>2, <2>3 DEF LineInv, Running
<1>6. CASE state = "st_http_slash_version" /\ state' = "st_done" /\ t \in Space /\ r.field = "version"
  <2>1. PICK h \in Heads, b \in Seq(Tokens) : b = h \o Target(Said) \o <<"SP">> /\ Running(b)
    BY <1>4, <1>6
  <2>2. PICK w \in Seq(Tokens) : w = Run /\ w # <<>> /\ w # Stale /\ rqdata' = [rqdata EXCEPT !["version"] = w]
    BY <1>6, TurnRow, Copied DEF Turning
  <2>3. Heads' = Heads /\ Said'.version = w /\ Target(Said') = Target(Said)
    BY <2>2, SaidGrows DEF Turning, Fields
  <2>4. text' = b \o w \o <<t>>
    BY <2>1, <2>2, TextGrows DEF Running
  <2>5. <<t>> \in SeqOf(Space, 1)
    BY <1>6, OneSpace
  <2>6. text' = h \o Target(Said') \o <<"SP">> \o Said'.version \o <<t>>
    BY <2>1, <2>3, <2>4
  <2> QED
    BY <1>6, <2>3, <2>5, <2>6 DEF LineInv
<1> QED
  BY <1>1, <1>3, <1>5, <1>6

-----------------------------------------------------------------------------
(* The invariant.                                                          *)

\* The bound on a loop holds where only the loop can be taken.
LEMMA LoopBounds ==
  ASSUME NEW t \in Tokens, Read(t)
  PROVE  /\ state = "st_start" /\ t \in Space => Len(text) - start < MaxRun - 1
         /\ state = "st_space_after_method" /\ t = "SP" => Len(text) - start < MaxRun + 1
<1>1. \A r \in Rows : r.from = state /\ t \in r.on /\ r.to = state => Len(text) - start < Bound
  BY Zenon DEF Read
<1>2. ASSUME state = "st_start", t \in Space PROVE Len(text) - start < MaxRun - 1
  <2>1. Loop("st_start", Space) \in Rows
    BY Zenon DEF Rows, MethodRows
  <2>2. /\ Loop("st_start", Space).from = state /\ Loop("st_start", Space).to = state
        /\ t \in Loop("st_start", Space).on
    BY <1>2 DEF Loop, Row
  <2>3. Bound = MaxRun - 1
    BY <1>2, Zenon DEF Bound
  <2> QED
    BY <1>1, <2>1, <2>2, <2>3, Zenon
<1>3. ASSUME state = "st_space_after_method", t = "SP" PROVE Len(text) - start < MaxRun + 1
  <2>1. Loop("st_space_after_method", {"SP"}) \in Rows
    BY Zenon DEF Rows, AfterMethodRows
  <2>2. /\ Loop("st_space_after_method", {"SP"}).from = state /\ Loop("st_space_after_method", {"SP"}).to = state
        /\ t \in Loop("st_space_after_method", {"SP"}).on
    BY <1>3 DEF Loop, Row
  <2>3. Bound = MaxRun + 1
    BY <1>3 DEF Bound
  <2> QED
    BY <1>1, <2>1, <2>2, <2>3, Zenon
<1> QED
  BY <1>2, <1>3

LEMMA ReadKeeps ==
  ASSUME ParseInv, NEW t \in Tokens, Read(t)
  PROVE  ParseInv'
<1>1. /\ result = "reading" /\ text' = Append(text, t)
      /\ ParseTypes /\ KnownInv /\ LineInv
  BY Turn
<1>2. CASE result' = "error" /\ UNCHANGED <<state, start, end, rqdata>>
  <2>1. text' \in Seq(Tokens) /\ Len(text') = Len(text) + 1 /\ Len(text) \in Nat
    BY <1>1, AppendProperties, LenProperties DEF ParseTypes
  <2>2. ParseTypes'
    BY <1>1, <1>2, <2>1 DEF ParseTypes
  <2> QED
    BY <1>2, <2>2 DEF ParseInv
<1>3. ASSUME NEW r \in Rows, r.from = state, t \in r.on, Taken(r)
      PROVE  ParseInv'
  <2>1. ParseTypes'
    BY <1>1, <1>3, TypesKept
  <2>2. CASE result' = "error"
    BY <2>1, <2>2 DEF ParseInv
  <2>3. CASE result' # "error"
    <3>1. KnownInv'
      BY <1>1, <1>3, <2>3, KnownKept
    <3>2. Turning(t, r)
      BY <1>1, <1>3, <2>1, <2>3, <3>1 DEF Turning
    <3>3. LineInv'
      <4>1. state \in States \ {"st_done", "error"}
        BY <1>1 DEF ParseInv, ParseTypes
      <4>2. /\ state = "st_start" => LineInv'
            /\ state = "st_method" => LineInv'
            /\ state = "st_space_after_method" => LineInv'
        BY <3>2, LoopBounds, StartTurns, MethodTurns, AfterMethodTurns
      <4>3. /\ state \in {"st_uri", "st_host"} => LineInv'
            /\ state = "st_colon_after_uri" => LineInv'
            /\ state \in {"st_schema_slash", "st_schema_slash_slash"} => LineInv'
        BY <3>2, NameTurns, ColonTurns, SchemaTurns
      <4>4. /\ state \in {"st_colon_before_port", "st_port"} => LineInv'
            /\ state = "st_loc" => LineInv'
            /\ state \in {"st_space_before_version", "st_http_HTTP", "st_http_slash", "st_http_slash_version"} =>
                 LineInv'
        BY <3>2, PortTurns, LocTurns, VersionTurns
      <4> QED
        BY <4>1, <4>2, <4>3, <4>4 DEF States
    <3>4. r.to # "error" /\ state' = r.to
      BY <3>2, TurnRow
    <3>5. result' = IF r.to = "st_done" THEN "ok" ELSE "reading"
      BY <1>3, <2>3, Zenon DEF Taken
    <3> QED
      BY <2>1, <3>1, <3>3, <3>4, <3>5 DEF ParseInv
  <2> QED
    BY <2>2, <2>3
<1> QED
  BY <1>2, <1>3, Turn

LEMMA EndKeeps ==
  ASSUME ParseInv, EndOfLine
  PROVE  ParseInv'
<1>1. ParseTypes /\ KnownInv /\ LineInv /\ result = "reading" /\ UNCHANGED <<text, start>>
  BY DEF EndOfLine, ParseInv
<1>2. CASE state # "st_http_slash_version"
  <2>1. result' = "incomplete" /\ UNCHANGED <<text, start, state, end, rqdata>>
    BY <1>2 DEF EndOfLine
  <2>2. ParseTypes'
    BY <1>1, <2>1 DEF ParseTypes
  <2> QED
    BY <2>1, <2>2 DEF ParseInv
<1>3. CASE state = "st_http_slash_version"
  <2>1. /\ end' = Len(text) /\ state' = "st_done" /\ result' = "ok"
        /\ rqdata' = [rqdata EXCEPT !["version"] = Run]
    BY <1>3 DEF EndOfLine, Run
  <2>2. PICK h \in Heads : Running(h \o Target(Said) \o <<"SP">>)
    BY <1>1, <1>3 DEF LineInv
  <2>3. PICK w \in Seq(Tokens) : w = Run /\ w # <<>> /\ w # Stale
    <3>1. Len(text) \in 0 .. Len(text)
      BY <1>1, LenProperties DEF ParseTypes
    <3> QED
      BY <1>1, <2>2, <3>1, PieceIs, TokensAre DEF Run, Running
  <2>4. rqdata' = [rqdata EXCEPT !["version"] = w]
    BY <2>1, <2>3
  <2>5. ParseTypes'
    <3>1. Len(text) \in Nat
      BY <1>1, LenProperties DEF ParseTypes
    <3> QED
      BY <1>1, <2>1, <2>4, <3>1 DEF ParseTypes, States, Fields
  <2>6. KnownInv'
    <3>1. /\ rqdata'["version"] = w
          /\ \A f \in Fields \ {"version"} : rqdata'[f] = rqdata[f]
      BY <1>1, <2>4 DEF ParseTypes, Fields
    <3>2. PICK parts \in Forms : Known(parts \cup {"method"})
      BY <1>1, <1>3 DEF KnownInv
    <3>3. Known(parts \cup {"method", "version"})'
      BY <2>3, <3>1, <3>2 DEF Known, Fields
    <3>4. \E F \in Forms : Known(F \cup {"method", "version"})'
      BY <3>3, Zenon
    <3> QED
      BY <1>1, <1>3, <2>1, <2>3, <3>1, <3>4 DEF KnownInv, Fields
  <2>7. LineInv'
    <3>1. Heads' = Heads /\ Said'.version = w /\ Target(Said') = Target(Said)
      BY <1>1, <2>3, <2>4, <2>5, SaidGrows DEF Fields
    <3>2. text = h \o Target(Said') \o <<"SP">> \o Said'.version
      BY <2>2, <2>3, <3>1 DEF Running
    <3>3. <<>> \in SeqOf(Space, 1) /\ text \o <<>> = text
      <4>1. <<>> \in Seq(Space) /\ Len(<<>>) = 0
        BY EmptySeq
      <4>2. \A n \in Nat : Len(<<>>) <= n => <<>> \in SeqOf(Space, n)
        BY <4>1, SeqOfIs
      <4> QED
        BY <1>1, <4>1, <4>2, ConcatEmptySeq DEF ParseTypes
    <3>4. text' = h \o Target(Said') \o <<"SP">> \o Said'.version \o <<>>
      BY <1>1, <3>2, <3>3
    <3> QED
      BY <2>1, <3>1, <3>3, <3>4 DEF LineInv
  <2> QED
    BY <2>1, <2>5, <2>6, <2>7 DEF ParseInv
<1> QED
  BY <1>2, <1>3

LEMMA ParseInitially ==
  ASSUME Init
  PROVE  ParseInv
<1>1. /\ text = <<>> /\ state = "st_start" /\ start = 1 /\ end = 0
      /\ rqdata = [f \in Fields |-> Stale] /\ result = "reading"
  BY DEF Init
<1>2. Len(text) = 0 /\ text \in Seq(Tokens) /\ text \in Seq(Space)
  BY <1>1, EmptySeq
<1>3. ParseTypes
  BY <1>1, <1>2 DEF ParseTypes, States
<1>4. KnownInv
  <2>1. Stale # <<>>
    BY DEF Stale
  <2> QED
    BY <1>1, <2>1 DEF KnownInv, Known, Fields
<1>5. LineInv
  <2>1. text \in Leads
    <3>1. \A n \in Nat : Len(text) <= n => text \in SeqOf(Space, n)
      BY <1>2, SeqOfIs
    <3> QED
      BY <1>2, <3>1, ParseAssumption DEF Leads
  <2> QED
    BY <1>1, <2>1 DEF LineInv
<1> QED
  BY <1>1, <1>3, <1>4, <1>5 DEF ParseInv

LEMMA ParseStutters ==
  ASSUME ParseInv, UNCHANGED vars
  PROVE  ParseInv'
<1>1. UNCHANGED <<text, state, start, end, rqdata, result>>
  BY DEF vars
<1>2. Run' = Run /\ Heads' = Heads /\ Said' = Said
  BY <1>1 DEF Run, Heads, Said
<1>3. ParseTypes' = ParseTypes
  BY <1>1 DEF ParseTypes
<1>4. KnownInv' = KnownInv
  BY <1>1 DEF KnownInv, Known
<1>5. LineInv' = LineInv
  BY <1>1, <1>2 DEF LineInv, Running
<1> QED
  BY <1>1, <1>3, <1>4, <1>5 DEF ParseInv

\* The inductive invariant: what the line and the fields are in every state.
THEOREM ParseInvariant == Spec => []ParseInv
<1>1. Init => ParseInv
  BY ParseInitially
<1>2. ParseInv /\ [Next]_vars => ParseInv'
  BY ReadKeeps, EndKeeps, ParseStutters DEF Next
<1> QED
  BY <1>1, <1>2, PTL DEF Spec

\* Whatever the line, every field holds what it held before the call or a
\* piece of the line, and rc_start and rc_end stay inside of the line.
THEOREM ParseIsTyped == Spec => []ParseTypeOK
<1>1. ParseInv => ParseTypeOK
  BY DEF ParseInv, ParseTypes, ParseTypeOK
<1> QED
  BY <1>1, ParseInvariant, PTL

\* An accepted line of any length is its fields put together again:
\* parse_requestline() loses no character and takes none for another field's.
THEOREM ParseCoversLine == Spec => []FieldsCoverLine
<1>1. ParseInv => FieldsCoverLine
  <2>1. ASSUME ParseInv, result = "ok"
        PROVE  \E lead \in Leads, rest \in SeqOf(Space, 1), gap \in Gaps :
                 text = lead \o Said.method \o gap \o Target(Said) \o <<"SP">> \o Said.version \o rest
    <3>1. ParseTypes /\ KnownInv /\ LineInv /\ state = "st_done"
      BY <2>1 DEF ParseInv
    <3>2. PICK h \in Heads, rest \in SeqOf(Space, 1) :
            text = h \o Target(Said) \o <<"SP">> \o Said.version \o rest
      BY <3>1 DEF LineInv
    <3>3. Said.method = rqdata["method"]
      <4>1. rqdata["method"] # Stale
        BY <3>1, TokensAre DEF KnownInv
      <4> QED
        BY <4>1 DEF Said, Fields
    <3>4. PICK lead \in Leads, gap \in Gaps : h = lead \o Said.method \o gap
      BY <3>2, <3>3 DEF Heads, HeadsOf
    <3>5. text = lead \o Said.method \o gap \o Target(Said) \o <<"SP">> \o Said.version \o rest
      BY <3>2, <3>4
    <3> QED
      BY <3>5
  <2>2. Leads = SeqOf(Space, MaxRun) /\ Gaps = SeqOf({"SP"}, MaxRun + 1) \ {<<>>}
    BY DEF Leads, Gaps, Blank
  <2> QED
    BY <2>1, <2>2, Zenon DEF FieldsCoverLine
<1> QED
  BY <1>1, ParseInvariant, PTL

\* Of an accepted line, doit() uses the method, the version and the parts of
\* the target; whatever a target of that form has not got is an earlier line's.
THEOREM ParseStaleWhereLeftOut == Spec => []StaleWhereLeftOut
<1>1. ParseInv => StaleWhereLeftOut
  BY DEF ParseInv, KnownInv, Known, StaleWhereLeftOut
<1> QED
  BY <1>1, ParseInvariant, PTL
=============================================================================

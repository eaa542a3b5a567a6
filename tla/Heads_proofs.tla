---------------------------- MODULE Heads_proofs ----------------------------
(***************************************************************************)
(* The heads of requests and responses, for a buffer and limits of every   *)
(* size, heads of any number of headers, and however they are cut in       *)
(* pieces.                                                                 *)
(***************************************************************************)
EXTENDS Heads, WellFoundedInduction, SequenceTheorems, FiniteSetTheorems,
        TLAPS

-----------------------------------------------------------------------------
(* Induction over the natural numbers, for a set of them: what is left out *)
(* of it has no least member.                                              *)
LEMMA Induct ==
  ASSUME NEW M, 0 \in M, \A n \in Nat : n \in M => n + 1 \in M
  PROVE  Nat \subseteq M
<1> SUFFICES ASSUME Nat \ M # {} PROVE FALSE
  OBVIOUS
<1>1. PICK R : R = OpToRel(<, Nat)
  OBVIOUS
<1>2. IsWellFoundedOn(R, Nat)
  BY <1>1, NatLessThanWellFounded
<1>3. PICK x \in Nat \ M : \A y \in Nat \ M : <<y, x>> \notin R
  BY <1>2, WFMin
<1>4. x - 1 \in Nat \ M
  OBVIOUS
<1>5. <<x - 1, x>> \in R
  BY <1>1, <1>4 DEF OpToRel
<1> QED BY <1>3, <1>4, <1>5

(* Parse is a loop over the bytes received: what it begins with, what it   *)
(* has after each of them, and that there is a function of these.          *)
Begun == [state |-> hd.state, str |-> hd.str, p |-> pos, rc |-> "AGAIN"]
Course(table, k, to) ==
  k = [i \in (pos - 1) .. to |->
         IF i < pos THEN Begun ELSE Byte(table, k[i - 1], Stream[i][2])]

LEMMA Courses ==
  ASSUME pos \in Nat \ {0}, NEW table, NEW m \in Nat
  PROVE  \E k : Course(table, k, pos - 1 + m)
<1> DEFINE M == {n \in Nat : \E k : Course(table, k, pos - 1 + n)}
<1>1. 0 \in M
  <2>1. PICK k : k = [i \in (pos - 1) .. (pos - 1 + 0) |-> Begun]
    OBVIOUS
  <2>2. k = [i \in (pos - 1) .. (pos - 1 + 0) |->
               IF i < pos THEN Begun ELSE Byte(table, k[i - 1], Stream[i][2])]
    BY <2>1
  <2>3. Course(table, k, pos - 1 + 0)
    BY <2>2, Zenon DEF Course
  <2> QED BY <2>3
<1>2. ASSUME NEW n \in Nat, n \in M PROVE n + 1 \in M
  <2>1. PICK k : Course(table, k, pos - 1 + n)
    BY <1>2
  <2>2. PICK t : t = pos - 1 + n
    OBVIOUS
  <2>3. t \in Nat /\ t + 1 = pos - 1 + (n + 1) /\ t + 1 >= pos
    BY <2>2
  <2>4. PICK x : x = Byte(table, k[t], Stream[t + 1][2])
    OBVIOUS
  <2>5. PICK f : f = [i \in (pos - 1) .. (t + 1) |->
                        IF i = t + 1 THEN x ELSE k[i]]
    OBVIOUS
  <2>6. ASSUME NEW i \in (pos - 1) .. (t + 1)
        PROVE  f[i] = IF i < pos THEN Begun
                      ELSE Byte(table, f[i - 1], Stream[i][2])
    <3>1. CASE i = t + 1
      <4>1. f[i] = x /\ f[i - 1] = k[t] /\ ~(i < pos)
        BY <2>2, <2>3, <2>5, <3>1
      <4>2. x = Byte(table, f[i - 1], Stream[i][2])
        BY <2>4, <3>1, <4>1, Zenon
      <4> QED BY <4>1, <4>2, Zenon
    <3>2. CASE i # t + 1
      <4>1. i \in (pos - 1) .. t
        BY <2>3, <3>2
      <4>2. f[i] = k[i]
        BY <2>5, <3>2
      <4>3. k[i] = IF i < pos THEN Begun
                   ELSE Byte(table, k[i - 1], Stream[i][2])
        BY <2>1, <2>2, <4>1, Zenon DEF Course
      <4>4. ~(i < pos) => f[i - 1] = k[i - 1]
        BY <2>3, <2>5, <4>1
      <4> QED BY <4>2, <4>3, <4>4, Zenon
    <3> QED BY <3>1, <3>2
  <2>7. f = [i \in (pos - 1) .. (t + 1) |->
               IF i < pos THEN Begun ELSE Byte(table, f[i - 1], Stream[i][2])]
    BY <2>5, <2>6, Zenon
  <2>8. Course(table, f, t + 1)
    BY <2>7, Zenon DEF Course
  <2>9. Course(table, f, pos - 1 + (n + 1))
    BY <2>3, <2>8
  <2> QED BY <2>9
<1>3. m \in M
  <2> HIDE DEF M
  <2> QED BY <1>1, <1>2, Induct
<1> QED BY <1>3

LEMMA ParseRuns ==
  ASSUME pos \in Nat \ {0}, NEW table, NEW to \in Nat, to >= pos - 1
  PROVE  \E k : Course(table, k, to) /\ Parse(table, to) = k[to]
<1>1. to - (pos - 1) \in Nat /\ pos - 1 + (to - (pos - 1)) = to
  OBVIOUS
<1>2. \E k : Course(table, k, to)
  BY <1>1, Courses
<1>3. \E k : k = [i \in (pos - 1) .. to |->
                    IF i < pos THEN Begun
                    ELSE Byte(table, k[i - 1], Stream[i][2])]
  BY <1>2, Zenon DEF Course
<1>4. (IF to < pos THEN pos - 1 ELSE to) = to
  OBVIOUS
<1> DEFINE k == CHOOSE k : k = [i \in (pos - 1) .. to |->
                    IF i < pos THEN Begun
                    ELSE Byte(table, k[i - 1], Stream[i][2])]
<1>5. Course(table, k, to)
  BY <1>3, Zenon DEF Course
<1>6. Parse(table, to) = k[IF to < pos THEN pos - 1 ELSE to]
  BY Zenon DEF Parse, Begun
<1>7. Parse(table, to) = k[to]
  BY <1>4, <1>6
<1> QED BY <1>5, <1>7

(* What the parser begins with, and makes of each byte.                    *)
LEMMA CourseSteps ==
  ASSUME pos \in Nat \ {0}, NEW table, NEW to \in Nat, to >= pos - 1,
         NEW k, Course(table, k, to)
  PROVE  /\ k[pos - 1] = Begun
         /\ \A i \in pos .. to : k[i] = Byte(table, k[i - 1], Stream[i][2])
<1>1. \A i \in (pos - 1) .. to :
        k[i] = IF i < pos THEN Begun
               ELSE Byte(table, k[i - 1], Stream[i][2])
  BY Zenon DEF Course
<1>2. k[pos - 1] = Begun
  BY <1>1
<1>3. ASSUME NEW i \in pos .. to
      PROVE  k[i] = Byte(table, k[i - 1], Stream[i][2])
  <2>1. i \in (pos - 1) .. to /\ ~(i < pos)
    OBVIOUS
  <2> QED BY <1>1, <2>1
<1> QED BY <1>2, <1>3

(* Induction over the bytes of a call.                                     *)
LEMMA Along ==
  ASSUME pos \in Nat \ {0}, NEW to \in Nat, to >= pos - 1,
         NEW M, pos - 1 \in M, \A i \in pos .. to : i - 1 \in M => i \in M
  PROVE  to \in M
<1> DEFINE N == {n \in Nat : pos - 1 + n <= to => pos - 1 + n \in M}
<1>1. 0 \in N
  OBVIOUS
<1>2. ASSUME NEW n \in Nat, n \in N PROVE n + 1 \in N
  <2> SUFFICES ASSUME pos - 1 + (n + 1) <= to
               PROVE  pos - 1 + (n + 1) \in M
    OBVIOUS
  <2>1. PICK i : i = pos - 1 + (n + 1)
    OBVIOUS
  <2>2. i \in pos .. to /\ i - 1 = pos - 1 + n
    BY <2>1
  <2>3. i - 1 \in M
    BY <1>2, <2>1, <2>2
  <2> QED BY <2>1, <2>2, <2>3
<1>3. to - (pos - 1) \in N
  <2>1. to - (pos - 1) \in Nat
    OBVIOUS
  <2> HIDE DEF N
  <2> QED BY <1>1, <1>2, <2>1, Induct
<1>4. pos - 1 + (to - (pos - 1)) = to
  OBVIOUS
<1> QED BY <1>3, <1>4

-----------------------------------------------------------------------------
(* The tables: every transition leads to a state of the table, or ends it. *)
Final == {"DONE", "OK", "HTTP_PARSE_HEADER_DONE"}
Proper(table, t) ==
  /\ t.to \in DOMAIN table \cup Final
  /\ t.begins \subseteq Field /\ t.ends \subseteq Field
Tabled(table) ==
  /\ \A s \in DOMAIN table : \A t \in table[s] : Proper(table, t)
  /\ "s_method" \in DOMAIN table => "s_after_connect" \in DOMAIN table
  /\ DOMAIN table \cap Final = {}

(* A transition, with all its parts.                                       *)
Trans(on, to, e, b) == [on |-> on, to |-> to, ends |-> e, begins |-> b]

LEMMA Kinds ==
  ASSUME NEW f, NEW on, NEW to
  PROVE  /\ Go(on, to) = Trans(on, to, {}, {})
         /\ Begins(f, on, to) = Trans(on, to, {}, {f})
         /\ Ends(f, on, to) = Trans(on, to, {f}, {})
<1>1. Go(on, to) = [on |-> on, to |-> to, ends |-> {}, begins |-> {}]
  BY DEF Go
<1>2. Ends(f, on, to) = [on |-> on, to |-> to, ends |-> {f}, begins |-> {}]
  BY <1>1 DEF Ends
<1>3. Begins(f, on, to) = [on |-> on, to |-> to, ends |-> {}, begins |-> {f}]
  BY <1>1 DEF Begins
<1> QED BY <1>1, <1>2, <1>3 DEF Trans

LEMMA Parts ==
  ASSUME NEW on, NEW to, NEW e, NEW b, NEW t \in {Trans(on, to, e, b)}
  PROVE  t.on = on /\ t.to = to /\ t.ends = e /\ t.begins = b
BY DEF Trans

(* The table of request lines, entry by entry.                             *)
LEMMA RequestEntries ==
  /\ RequestLine["s_start"] =
       {Trans(Upper, "s_method", {}, {"method"}),
        Trans(Token \ Upper, "s_start", {}, {})}
  /\ RequestLine["s_method"] =
       {Trans(Upper, "s_method", {}, {}),
        Trans({"sp"}, "s_after_method", {"method"}, {})}
  /\ RequestLine["s_after_method"] =
       {Trans({"sp"}, "s_after_method", {}, {}),
        Trans(Lower, "s_schema", {}, {"schema"}),
        Trans({"/"}, "s_uri", {}, {"uri"})}
  /\ RequestLine["s_after_connect"] =
       {Trans({"sp"}, "s_after_connect", {}, {}),
        Trans(Lower \cup Digit, "s_host", {}, {"host"})}
  /\ RequestLine["s_schema"] =
       {Trans(Lower, "s_schema", {}, {}),
        Trans({":"}, "s_schema_slash", {"schema"}, {})}
  /\ RequestLine["s_schema_slash"] =
       {Trans({"/"}, "s_schema_slash_slash", {}, {}),
        Trans(Token \ {"/"}, "s_schema_slash", {}, {})}
  /\ RequestLine["s_schema_slash_slash"] =
       {Trans({"/"}, "s_host_start", {}, {}),
        Trans(Token \ {"/"}, "s_schema_slash_slash", {}, {})}
  /\ RequestLine["s_host_start"] =
       {Trans(Token, "s_host", {}, {"host"})}
  /\ RequestLine["s_host"] =
       {Trans(Letter \cup Digit \cup {".", "-"}, "s_host", {}, {}),
        Trans({":"}, "s_colon", {"host"}, {}),
        Trans({"/"}, "s_uri", {"host"}, {"uri"})}
  /\ RequestLine["s_colon"] =
       {Trans(Digit, "s_port", {}, {"port"})}
  /\ RequestLine["s_port"] =
       {Trans(Digit, "s_port", {}, {}),
        Trans({"sp"}, "s_after_uri", {"port"}, {}),
        Trans({"/"}, "s_uri", {"port"}, {"uri"})}
  /\ RequestLine["s_uri"] =
       {Trans(Token \ {"sp"}, "s_uri", {}, {}),
        Trans({"sp"}, "s_after_uri", {"uri"}, {})}
  /\ RequestLine["s_after_uri"] =
       {Trans({"sp"}, "s_after_uri", {}, {}),
        Trans(Letter, "s_version", {}, {"http_version"})}
  /\ RequestLine["s_version"] =
       {Trans(Letter \cup Digit \cup {"/", "."}, "s_version", {}, {}),
        Trans({"cr"}, "s_end", {"http_version"}, {})}
  /\ RequestLine["s_end"] =
       {Trans({"lf"}, "DONE", {}, {})}
<1>1. RequestLine["s_start"] =
       {Trans(Upper, "s_method", {}, {"method"}),
        Trans(Token \ Upper, "s_start", {}, {})}
  BY Kinds DEF RequestLine
<1>2. RequestLine["s_method"] =
       {Trans(Upper, "s_method", {}, {}),
        Trans({"sp"}, "s_after_method", {"method"}, {})}
  BY Kinds DEF RequestLine
<1>3. RequestLine["s_after_method"] =
       {Trans({"sp"}, "s_after_method", {}, {}),
        Trans(Lower, "s_schema", {}, {"schema"}),
        Trans({"/"}, "s_uri", {}, {"uri"})}
  BY Kinds DEF RequestLine
<1>4. RequestLine["s_after_connect"] =
       {Trans({"sp"}, "s_after_connect", {}, {}),
        Trans(Lower \cup Digit, "s_host", {}, {"host"})}
  BY Kinds DEF RequestLine
<1>5. RequestLine["s_schema"] =
       {Trans(Lower, "s_schema", {}, {}),
        Trans({":"}, "s_schema_slash", {"schema"}, {})}
  BY Kinds DEF RequestLine
<1>6. RequestLine["s_schema_slash"] =
       {Trans({"/"}, "s_schema_slash_slash", {}, {}),
        Trans(Token \ {"/"}, "s_schema_slash", {}, {})}
  BY Kinds DEF RequestLine
<1>7. RequestLine["s_schema_slash_slash"] =
       {Trans({"/"}, "s_host_start", {}, {}),
        Trans(Token \ {"/"}, "s_schema_slash_slash", {}, {})}
  BY Kinds DEF RequestLine
<1>8. RequestLine["s_host_start"] =
       {Trans(Token, "s_host", {}, {"host"})}
  BY Kinds DEF RequestLine
<1>9. RequestLine["s_host"] =
       {Trans(Letter \cup Digit \cup {".", "-"}, "s_host", {}, {}),
        Trans({":"}, "s_colon", {"host"}, {}),
        Trans({"/"}, "s_uri", {"host"}, {"uri"})}
  <2>1. RequestLine["s_host"] =
          {Go(Letter \cup Digit \cup {".", "-"}, "s_host"),
           Ends("host", {":"}, "s_colon"),
           [Ends("host", {"/"}, "s_uri") EXCEPT !.begins = {"uri"}]}
    BY DEF RequestLine
  <2>2. [Ends("host", {"/"}, "s_uri") EXCEPT !.begins = {"uri"}] =
          Trans({"/"}, "s_uri", {"host"}, {"uri"})
    <3>1. Ends("host", {"/"}, "s_uri") =
            [on |-> {"/"}, to |-> "s_uri", ends |-> {"host"}, begins |-> {}]
      BY Kinds DEF Trans
    <3> QED BY <3>1 DEF Trans
  <2>3. /\ Go(Letter \cup Digit \cup {".", "-"}, "s_host")
             = Trans(Letter \cup Digit \cup {".", "-"}, "s_host", {}, {})
        /\ Ends("host", {":"}, "s_colon") = Trans({":"}, "s_colon", {"host"}, {})
    BY Kinds
  <2> QED BY <2>1, <2>2, <2>3, Zenon
<1>10. RequestLine["s_colon"] =
       {Trans(Digit, "s_port", {}, {"port"})}
  BY Kinds DEF RequestLine
<1>11. RequestLine["s_port"] =
       {Trans(Digit, "s_port", {}, {}),
        Trans({"sp"}, "s_after_uri", {"port"}, {}),
        Trans({"/"}, "s_uri", {"port"}, {"uri"})}
  <2>1. RequestLine["s_port"] =
          {Go(Digit, "s_port"), Ends("port", {"sp"}, "s_after_uri"),
           [Ends("port", {"/"}, "s_uri") EXCEPT !.begins = {"uri"}]}
    BY DEF RequestLine
  <2>2. [Ends("port", {"/"}, "s_uri") EXCEPT !.begins = {"uri"}] =
          Trans({"/"}, "s_uri", {"port"}, {"uri"})
    <3>1. Ends("port", {"/"}, "s_uri") =
            [on |-> {"/"}, to |-> "s_uri", ends |-> {"port"}, begins |-> {}]
      BY Kinds DEF Trans
    <3> QED BY <3>1 DEF Trans
  <2>3. /\ Go(Digit, "s_port") = Trans(Digit, "s_port", {}, {})
        /\ Ends("port", {"sp"}, "s_after_uri")
             = Trans({"sp"}, "s_after_uri", {"port"}, {})
    BY Kinds
  <2> QED BY <2>1, <2>2, <2>3, Zenon
<1>12. RequestLine["s_uri"] =
       {Trans(Token \ {"sp"}, "s_uri", {}, {}),
        Trans({"sp"}, "s_after_uri", {"uri"}, {})}
  BY Kinds DEF RequestLine
<1>13. RequestLine["s_after_uri"] =
       {Trans({"sp"}, "s_after_uri", {}, {}),
        Trans(Letter, "s_version", {}, {"http_version"})}
  BY Kinds DEF RequestLine
<1>14. RequestLine["s_version"] =
       {Trans(Letter \cup Digit \cup {"/", "."}, "s_version", {}, {}),
        Trans({"cr"}, "s_end", {"http_version"}, {})}
  BY Kinds DEF RequestLine
<1>15. RequestLine["s_end"] =
       {Trans({"lf"}, "DONE", {}, {})}
  BY Kinds DEF RequestLine
<1> QED BY <1>1, <1>2, <1>3, <1>4, <1>5, <1>6, <1>7, <1>8, <1>9, <1>10, <1>11, <1>12, <1>13, <1>14, <1>15

LEMMA RequestTable == Tabled(RequestLine)
<1>1. /\ "s_method" \in DOMAIN RequestLine => "s_after_connect" \in DOMAIN RequestLine
      /\ DOMAIN RequestLine \cap Final = {}
  BY DEF RequestLine, Final
<1>2. ASSUME NEW s \in DOMAIN RequestLine, NEW t \in RequestLine[s]
      PROVE  Proper(RequestLine, t)
  <2>1. DOMAIN RequestLine =
          {"s_start", "s_method", "s_after_method", "s_after_connect",
           "s_schema", "s_schema_slash", "s_schema_slash_slash",
           "s_host_start", "s_host", "s_colon", "s_port", "s_uri",
           "s_after_uri", "s_version", "s_end"}
    BY DEF RequestLine
  <2>2. \E on, to, e, b : /\ t \in {Trans(on, to, e, b)}
                          /\ to \in DOMAIN RequestLine \cup Final
                          /\ e \subseteq Field /\ b \subseteq Field
    BY <2>1, RequestEntries DEF Final, Field
  <2> QED BY <2>2, Parts DEF Proper
<1> QED BY <1>1, <1>2 DEF Tabled

LEMMA ResponseTable == Tabled(ResponseLine)
BY DEF Tabled, ResponseLine, Proper, Final, Go, Begins, Ends, Field

LEMMA HeaderTable == Tabled(HeaderLine)
BY DEF Tabled, HeaderLine, Proper, Final, Go, Begins, Ends, Field

(* A version ends only in the state that looks at its length.              *)
Heedful(table) ==
  \A s \in DOMAIN table : \A t \in table[s] :
    "http_version" \in t.ends => s = "s_version"

LEMMA RequestHeeds == Heedful(RequestLine)
<1>1. ASSUME NEW s \in DOMAIN RequestLine, NEW t \in RequestLine[s],
             s # "s_version"
      PROVE  "http_version" \notin t.ends
  <2>1. DOMAIN RequestLine =
          {"s_start", "s_method", "s_after_method", "s_after_connect",
           "s_schema", "s_schema_slash", "s_schema_slash_slash",
           "s_host_start", "s_host", "s_colon", "s_port", "s_uri",
           "s_after_uri", "s_version", "s_end"}
    BY DEF RequestLine
  <2>2. \E on, to, e, b : /\ t \in {Trans(on, to, e, b)}
                          /\ "http_version" \notin e
    BY <1>1, <2>1, RequestEntries
  <2> QED BY <2>2, Parts
<1> QED BY <1>1 DEF Heedful

(* No header ends a word of the line.                                      *)
Lineless(table) ==
  \A s \in DOMAIN table : \A t \in table[s] :
    "uri" \notin t.ends /\ "http_version" \notin t.ends

LEMMA HeaderHeeds == Heedful(HeaderLine) /\ Lineless(HeaderLine)
<1>1. Lineless(HeaderLine)
  BY DEF Lineless, HeaderLine, Go, Begins, Ends
<1> QED BY <1>1 DEF Heedful, Lineless

(* What a call of a parser needs of its table.                             *)
Heeded(table) == /\ role = "request" => Heedful(table)
                 /\ hd.handler = "headers" => Lineless(table)

-----------------------------------------------------------------------------
(* One byte: the parser had ended, or the byte is refused, or a transition *)
(* is taken.                                                               *)
Marks(k, t) == [f \in Field |->
  IF f \in t.begins THEN [k.str[f] EXCEPT !.data = k.p]
  ELSE IF f \in t.ends THEN [k.str[f] EXCEPT !.len = Length(k, f)]
  ELSE k.str[f]]
Taken(table, k, b, t) ==
  [state |-> IF b = "sp" /\ Connects(k) THEN "s_after_connect" ELSE t.to,
   str |-> Marks(k, t), p |-> k.p + 1,
   rc |-> IF t.to \in DOMAIN table THEN "AGAIN" ELSE t.to]
Options(table, k, b) == {t \in table[k.state] : b \in t.on /\ Admits(k, t)}

LEMMA ByteEnded ==
  ASSUME NEW table, NEW k, NEW b, k.rc # "AGAIN"
  PROVE  Byte(table, k, b) = k
BY Zenon DEF Byte

LEMMA ByteRefused ==
  ASSUME NEW table, NEW k, NEW b, k.rc = "AGAIN",
         Options(table, k, b) = {} \/ TooLong(k)
  PROVE  Byte(table, k, b) = Illegal(k)
BY Zenon DEF Byte, Options

LEMMA ByteTaken ==
  ASSUME NEW table, NEW k, NEW b, k.rc = "AGAIN",
         Options(table, k, b) # {}, ~TooLong(k)
  PROVE  \E t \in Options(table, k, b) : Byte(table, k, b) = Taken(table, k, b, t)
<1> DEFINE t == CHOOSE t \in Options(table, k, b) : TRUE
<1>1. t \in Options(table, k, b)
  OBVIOUS
<1>2. Byte(table, k, b) = Taken(table, k, b, t)
  BY Zenon DEF Byte, Options, Taken, Marks
<1> QED BY <1>1, <1>2

-----------------------------------------------------------------------------
(* The types.  What a parser has after i bytes.                            *)
Place == [data : Nat, len : Nat]
Strs == [Field -> Place]
Reach(str, n) == \A f \in Field : str[f].data <= n /\ str[f].len <= n
Limited(r, str) ==
  /\ str["method"].len <= MethodMax
  /\ str["http_code"].len \in {0, CodeLen}
  /\ r = "request" => str["http_version"].len <= VersionMax
UriLimited(r, handler, str) ==
  r = "request" /\ handler = "headers" => str["uri"].len <= UriMax
Whole(k) == k = [state |-> k.state, str |-> k.str, p |-> k.p, rc |-> k.rc]
Parsed(table, i, k) ==
  /\ Whole(k)
  /\ k.str \in Strs /\ Reach(k.str, k.p - 1)
  /\ Limited(role, k.str) /\ UriLimited(role, hd.handler, k.str)
  /\ k.p \in 1 .. (i + 1)
  /\ k.rc \in Final \cup {"AGAIN", "ERROR"}
  /\ k.rc = "AGAIN" => k.p = i + 1 /\ k.state \in DOMAIN table

LEMMA Limits ==
  /\ BufSize \in Nat \ {0} /\ MethodMax \in Nat \ {0}
  /\ VersionMax \in Nat \ {0} /\ UriMax \in Nat \ {0}
  /\ CodeLen \in Nat \ {0} /\ CloseLen \in Nat \ {0}
  /\ MaxHeaders \in Nat \ {0} /\ MaxCuts \in Nat \ {0}
BY HeadsAssumption

LEMMA MarksLimited ==
  ASSUME NEW table, Heeded(table), NEW k, NEW b,
         k.state \in DOMAIN table, k.str \in Strs, Limited(role, k.str),
         UriLimited(role, hd.handler, k.str),
         NEW t \in Options(table, k, b), ~TooLong(k), k.p \in Nat
  PROVE  Limited(role, Marks(k, t)) /\ UriLimited(role, hd.handler, Marks(k, t))
<1>1. ASSUME NEW f \in Field
      PROVE  Marks(k, t)[f].len =
               IF f \notin t.begins /\ f \in t.ends THEN Length(k, f)
               ELSE k.str[f].len
  <2>1. k.str[f] \in Place
    BY DEF Strs
  <2>2. Marks(k, t)[f] = IF f \in t.begins THEN [k.str[f] EXCEPT !.data = k.p]
                         ELSE IF f \in t.ends
                           THEN [k.str[f] EXCEPT !.len = Length(k, f)]
                         ELSE k.str[f]
    BY DEF Marks
  <2>3. PICK q \in Place : q = k.str[f]
    BY <2>1
  <2>4. /\ [q EXCEPT !.data = k.p].len = q.len
        /\ [q EXCEPT !.len = Length(k, f)].len = Length(k, f)
    BY DEF Place
  <2> QED BY <2>2, <2>3, <2>4
<1>2. {"method", "http_code", "http_version", "uri"} \subseteq Field
  BY DEF Field
<1>3. Admits(k, t) /\ t \in table[k.state]
  BY DEF Options
<1>4. Marks(k, t)["method"].len <= MethodMax
  <2>1. "method" \in t.ends => Length(k, "method") <= MethodMax
    BY <1>3, Limits DEF Admits
  <2> QED BY <1>1, <1>2, <2>1 DEF Limited
<1>5. Marks(k, t)["http_code"].len \in {0, CodeLen}
  <2>1. "http_code" \in t.ends => Length(k, "http_code") = CodeLen
    BY <1>3 DEF Admits
  <2> QED BY <1>1, <1>2, <2>1 DEF Limited
<1>6. ASSUME role = "request" PROVE Marks(k, t)["http_version"].len <= VersionMax
  <2>1. ASSUME "http_version" \in t.ends
        PROVE  Length(k, "http_version") <= VersionMax
    <3>1. k.state = "s_version"
      BY <1>3, <1>6, <2>1 DEF Heeded, Heedful
    <3>2. k.str["http_version"].data \in Nat
      BY <1>2 DEF Strs, Place
    <3> QED BY <3>1, <3>2, Limits DEF TooLong, Length
  <2> QED BY <1>1, <1>2, <1>6, <2>1 DEF Limited
<1>7. ASSUME role = "request", hd.handler = "headers"
      PROVE  Marks(k, t)["uri"].len <= UriMax
  <2>1. "uri" \notin t.ends
    BY <1>3, <1>7 DEF Heeded, Lineless
  <2> QED BY <1>1, <1>2, <1>7, <2>1 DEF UriLimited
<1> QED BY <1>4, <1>5, <1>6, <1>7 DEF Limited, UriLimited

LEMMA ByteParsed ==
  ASSUME NEW table, Tabled(table), Heeded(table), NEW i \in Nat \ {0}, NEW k, NEW b,
         Parsed(table, i - 1, k)
  PROVE  Parsed(table, i, Byte(table, k, b))
<1>1. /\ k.str \in Strs /\ Reach(k.str, k.p - 1) /\ k.p \in 1 .. (i + 1)
      /\ Limited(role, k.str) /\ UriLimited(role, hd.handler, k.str)
  BY DEF Parsed
<1>2. CASE k.rc # "AGAIN"
  BY <1>1, <1>2, ByteEnded DEF Parsed, Whole
<1>3. CASE k.rc = "AGAIN" /\ (Options(table, k, b) = {} \/ TooLong(k))
  <2>1. Byte(table, k, b) = [k EXCEPT !.rc = "ERROR"]
    BY <1>3, ByteRefused DEF Illegal
  <2>2. k = [state |-> k.state, str |-> k.str, p |-> k.p, rc |-> k.rc]
    BY DEF Parsed, Whole
  <2>3. Byte(table, k, b) = [state |-> k.state, str |-> k.str, p |-> k.p,
                             rc |-> "ERROR"]
    BY <2>1, <2>2
  <2> QED BY <1>1, <2>3 DEF Parsed, Whole
<1>4. CASE k.rc = "AGAIN" /\ Options(table, k, b) # {} /\ ~TooLong(k)
  <2>1. PICK t \in Options(table, k, b) :
          Byte(table, k, b) = Taken(table, k, b, t)
    BY <1>4, ByteTaken
  <2>2. k.state \in DOMAIN table /\ k.p = i
    BY <1>4 DEF Parsed
  <2>3. Proper(table, t)
    BY <2>2 DEF Tabled, Options
  <2>4. Marks(k, t) \in Strs /\ Reach(Marks(k, t), i)
    <3>1. ASSUME NEW f \in Field
          PROVE  Marks(k, t)[f] \in Place /\ Marks(k, t)[f].data <= i
                   /\ Marks(k, t)[f].len <= i
      <4>1. k.str[f] \in Place /\ k.str[f].data <= i - 1 /\ k.str[f].len <= i - 1
        BY <2>2 DEF Parsed, Reach, Strs
      <4>2. \A n \in 0 .. i : /\ [k.str[f] EXCEPT !.data = n] \in [data : 0 .. i, len : 0 .. i]
                              /\ [k.str[f] EXCEPT !.len = n] \in [data : 0 .. i, len : 0 .. i]
        BY <4>1 DEF Place
      <4>3. k.p \in 0 .. i /\ Length(k, f) \in 0 .. i
        BY <2>2, <4>1 DEF Length, Place
      <4>4. Marks(k, t)[f] \in [data : 0 .. i, len : 0 .. i]
        BY <4>1, <4>2, <4>3 DEF Marks, Place
      <4> QED BY <4>4 DEF Place
    <3>2. Marks(k, t) = [f \in Field |-> Marks(k, t)[f]]
      BY DEF Marks
    <3> QED BY <3>1, <3>2 DEF Strs, Reach
  <2>5. t.to \in DOMAIN table =>
          (IF b = "sp" /\ Connects(k) THEN "s_after_connect" ELSE t.to)
             \in DOMAIN table
    BY <2>2 DEF Connects, Tabled
  <2> DEFINE to == IF b = "sp" /\ Connects(k) THEN "s_after_connect" ELSE t.to
             end == IF t.to \in DOMAIN table THEN "AGAIN" ELSE t.to
  <2>6. Byte(table, k, b) = [state |-> to, str |-> Marks(k, t), p |-> i + 1,
                             rc |-> end]
    BY <2>1, <2>2 DEF Taken
  <2>7. end \in Final \cup {"AGAIN"} /\ (end = "AGAIN" => to \in DOMAIN table)
    BY <2>3, <2>5 DEF Proper, Final, Tabled
  <2>8. Limited(role, Marks(k, t)) /\ UriLimited(role, hd.handler, Marks(k, t))
    BY <1>1, <1>4, <2>2, MarksLimited
  <2> HIDE DEF to, end
  <2> QED BY <2>4, <2>6, <2>7, <2>8 DEF Parsed, Whole
<1> QED BY <1>2, <1>3, <1>4

(* The types of all variables, and how far the parser may have looked.     *)
Tag == Field \cup {"", "name"}
Message == [bytes : Seq(Tag \X Token), names : SUBSET DOMAIN Headers,
            damaged : Nat, longer : BOOLEAN]
State == DOMAIN RequestLine \cup DOMAIN ResponseLine \cup DOMAIN HeaderLine
HeadState == [handler : {"line", "headers"}, state : State, str : Strs,
              content_length : Place, body_type : {"NULL", "CONTENT", "CHUNK"},
              transfer_encoding : BOOLEAN, keepalive : BOOLEAN]
Table == IF hd.handler = "headers" THEN HeaderLine
         ELSE IF role = "request" THEN RequestLine ELSE ResponseLine

TypeInv ==
  /\ TypeOK
  /\ heads \in Seq(Message) /\ Len(heads) \in 1 .. 2
  /\ hd \in HeadState /\ Reach(hd.str, pos - 1)
  /\ pos <= last + 2
  /\ role = "request" \/ hd.handler = "headers" => pos <= last + 1
  /\ rc = "OK" => hd.handler = "headers"
  /\ phase \in {"answer", "https"} => role = "request"

LEMMA Streams ==
  ASSUME TypeInv
  PROVE  /\ Head(heads) \in Message /\ heads[1] = Head(heads)
         /\ current \in Message /\ Size \in Nat
         /\ Stream \in Seq(Tag \X Token) /\ Len(Stream) >= Size
         /\ \A i \in 1 .. Size : Stream[i] = current.bytes[i]
<1>1. heads \in Seq(Message) /\ Len(heads) \in 1 .. 2
  BY DEF TypeInv
<1>2. /\ heads[1] \in Message /\ heads[1] = Head(heads)
      /\ Len(heads) = 2 => heads[2] \in Message
  BY <1>1
<1>3. /\ heads[1].bytes \in Seq(Tag \X Token)
      /\ Len(heads) = 2 => heads[2].bytes \in Seq(Tag \X Token)
  BY <1>2 DEF Message
<1>4. current \in Message /\ current.bytes = heads[1].bytes
      /\ Len(current.bytes) = Size /\ Size \in Nat
  BY <1>2, <1>3 DEF current, Size
<1>5. CASE Len(heads) = 1
  BY <1>2, <1>3, <1>4, <1>5 DEF Stream
<1>6. CASE Len(heads) = 2
  <2>1. Stream = heads[1].bytes \o heads[2].bytes
    BY <1>6 DEF Stream
  <2>2. PICK a, b : a = heads[1].bytes /\ b = heads[2].bytes
    OBVIOUS
  <2>3. a \in Seq(Tag \X Token) /\ b \in Seq(Tag \X Token) /\ Stream = a \o b
    BY <1>3, <1>6, <2>1, <2>2
  <2>4. /\ Stream \in Seq(Tag \X Token) /\ Len(Stream) = Len(a) + Len(b)
        /\ \A i \in 1 .. Len(a) : Stream[i] = a[i]
    <3> HIDE DEF Tag, Token
    <3> QED BY <2>3
  <2>5. Len(a) = Size /\ a = current.bytes /\ Len(b) \in Nat
    BY <1>4, <2>2, <2>3
  <2> HIDE DEF Tag, Token
  <2> QED BY <1>2, <1>4, <2>4, <2>5
<1> QED BY <1>1, <1>5, <1>6

LEMMA Received ==
  ASSUME TypeInv, recv
  PROVE  /\ last' \in 0 .. BufSize /\ last' >= last /\ last' >= pos - 1
         /\ pos \in Nat \ {0} /\ last \in Nat
<1>1. /\ last \in 0 .. BufSize /\ pos \in 1 .. (BufSize + 2) /\ pos <= last + 2
      /\ rc \in {"AGAIN", "OK"}
      /\ rc = "OK" => pos <= last + 1
  BY DEF TypeInv, TypeOK
<1>2. Len(Stream) \in Nat
  BY Streams
<1>3. \/ last' \in (last + 1) .. Lowest(BufSize, Len(Stream)) /\ pos > last
      \/ last' = last /\ (rc = "OK" \/ pos <= last)
  BY <1>1 DEF recv
<1>4. Lowest(BufSize, Len(Stream)) \in 0 .. BufSize
  <2>1. PICK n \in Nat : n = Len(Stream)
    BY <1>2
  <2> QED BY <2>1, Limits DEF Lowest
<1> QED BY <1>1, <1>3, <1>4, Limits

LEMMA TableHeeds == Heeded(Table)
BY RequestHeeds, HeaderHeeds DEF Table, Heeded

LEMMA StrLimited ==
  TypeInv => Limited(role, hd.str) /\ UriLimited(role, hd.handler, hd.str)
BY DEF TypeInv, TypeOK, Limited, UriLimited

LEMMA ParseParsed ==
  ASSUME TypeInv, NEW to \in Nat, to >= pos - 1
  PROVE  Parsed(Table, to, Parse(Table, to))
<1>1. Tabled(Table)
  BY RequestTable, ResponseTable, HeaderTable DEF Table
<1>2. pos \in Nat \ {0}
  <2>1. pos \in 1 .. (BufSize + 2)
    BY DEF TypeInv, TypeOK
  <2> QED BY <2>1, Limits
<1>3. hd.str \in Strs /\ Reach(hd.str, pos - 1) /\ hd.state \in DOMAIN Table
  BY DEF TypeInv, TypeOK, HeadState, Table
<1>4. Parsed(Table, pos - 1, Begun)
  BY <1>2, <1>3, StrLimited DEF Parsed, Begun, Whole
<1>5. PICK k : Course(Table, k, to) /\ Parse(Table, to) = k[to]
  BY <1>2, ParseRuns
<1>6. /\ k[pos - 1] = Begun
      /\ \A i \in pos .. to : k[i] = Byte(Table, k[i - 1], Stream[i][2])
  <2>1. PICK table : table = Table
    OBVIOUS
  <2>2. Course(table, k, to)
    BY <1>5, <2>1
  <2>3. /\ k[pos - 1] = Begun
        /\ \A i \in pos .. to : k[i] = Byte(table, k[i - 1], Stream[i][2])
    BY <1>2, <2>2, CourseSteps
  <2> QED BY <2>1, <2>3
<1> DEFINE M == {i \in Nat : Parsed(Table, i, k[i])}
<1>7. pos - 1 \in M
  BY <1>2, <1>4, <1>6
<1>8. ASSUME NEW i \in pos .. to, i - 1 \in M PROVE i \in M
  <2>1. i \in Nat \ {0} /\ Parsed(Table, i - 1, k[i - 1])
    BY <1>2, <1>8
  <2>2. Parsed(Table, i, Byte(Table, k[i - 1], Stream[i][2]))
    BY <1>1, <2>1, ByteParsed, TableHeeds
  <2> QED BY <1>6, <2>1, <2>2
<1>9. to \in M
  <2> HIDE DEF M
  <2> QED BY <1>2, <1>7, <1>8, Along
<1> QED BY <1>5, <1>9

LEMMA Wider ==
  ASSUME NEW n \in Nat, NEW b \in Nat, n <= b, NEW x \in 1 .. (n + 2)
  PROVE  x \in 1 .. (b + 2)
OBVIOUS

(* A step with the same heads.                                             *)
Phases == {"reading", "done", "answer", "https", "error", "over", "garbled"}
LEMMA Retyped ==
  ASSUME TypeInv, UNCHANGED <<role, heads>>, last' \in 0 .. BufSize,
         pos' \in 1 .. (last' + 2), hd' \in HeadState,
         Reach(hd'.str, pos' - 1), Reach(hd'.str, BufSize),
         role = "request" \/ hd'.handler = "headers" => pos' <= last' + 1,
         hd'.state \in DOMAIN Table',
         Limited(role, hd'.str), UriLimited(role, hd'.handler, hd'.str),
         rc' \in {"AGAIN", "OK"}, rc' = "OK" => hd'.handler = "headers",
         phase' \in Phases,
         phase' \in {"answer", "https"} => role = "request",
         cuts' \in 0 .. MaxCuts
  PROVE  TypeInv'
<1>1. /\ role' \in {"request", "response"} /\ pos' \in 1 .. (BufSize + 2)
      /\ heads' \in Seq(Message) /\ Len(heads') \in 1 .. 2
  <2>1. role' = role /\ heads' = heads
    OBVIOUS
  <2>2. PICK b \in Nat, n \in Nat : b = BufSize /\ n = last' /\ n <= b
    BY Limits
  <2>3. pos' \in 1 .. (BufSize + 2)
    <3>1. pos' \in 1 .. (n + 2)
      BY <2>2
    <3> QED BY <2>2, <3>1, Wider
  <2> QED BY <2>1, <2>3 DEF TypeInv, TypeOK
<1>2. \A f \in Field : /\ hd'.str[f].data \in 0 .. BufSize
                       /\ hd'.str[f].len \in 0 .. BufSize
  BY DEF HeadState, Strs, Place, Reach
<1>3. DOMAIN hd'.str = Field /\ hd'.keepalive \in BOOLEAN
      /\ hd'.body_type \in {"NULL", "CONTENT", "CHUNK"}
      /\ hd'.handler \in {"line", "headers"}
  BY DEF HeadState, Strs
<1>4. hd'.state \in CASE role' = "request" /\ hd'.handler = "line" ->
                           DOMAIN RequestLine
                       [] role' = "response" /\ hd'.handler = "line" ->
                           DOMAIN ResponseLine
                       [] OTHER -> DOMAIN HeaderLine
  <2>1. CASE hd'.handler = "headers"
    BY <1>1, <2>1 DEF Table
  <2>2. CASE hd'.handler = "line" /\ role' = "request"
    BY <1>1, <2>2 DEF Table
  <2>3. CASE hd'.handler = "line" /\ role' = "response"
    BY <1>1, <2>3 DEF Table
  <2> QED BY <1>1, <1>3, <2>1, <2>2, <2>3
<1>5. TypeOK'
  <2>1. /\ hd'.str["method"].len <= MethodMax
        /\ hd'.str["http_code"].len \in {0, CodeLen}
        /\ role' = "request" => hd'.str["http_version"].len <= VersionMax
        /\ role' = "request" /\ hd'.handler = "headers" =>
             hd'.str["uri"].len <= UriMax
    BY DEF Limited, UriLimited
  <2> QED BY <1>1, <1>2, <1>3, <1>4, <2>1 DEF TypeOK, Phases
<1>6. pos' <= last' + 2
  <2>1. PICK n \in Nat : n = last'
    BY Limits
  <2>2. pos' \in 1 .. (n + 2)
    BY <2>1
  <2>3. pos' <= n + 2
    BY <2>2
  <2> QED BY <2>1, <2>3
<1>7. Reach(hd'.str, pos' - 1) /\ role' = role
  OBVIOUS
<1>8. role' = "request" \/ hd'.handler = "headers" => pos' <= last' + 1
  BY <1>7
<1> QED BY <1>1, <1>5, <1>6, <1>7, <1>8 DEF TypeInv

(* What a call leaves when it fails, or wants more.                        *)
LEMMA TypeParts ==
  ASSUME TypeInv
  PROVE  /\ hd \in HeadState /\ hd.str \in Strs /\ hd.state \in DOMAIN Table
         /\ hd.handler \in {"line", "headers"}
         /\ role \in {"request", "response"} /\ rc \in {"AGAIN", "OK"}
         /\ pos \in Nat \ {0} /\ last \in 0 .. BufSize /\ BufSize \in Nat
         /\ pos <= last + 2
         /\ Reach(hd.str, pos - 1) /\ Reach(hd.str, BufSize)
         /\ phase \in Phases /\ cuts \in 0 .. MaxCuts
         /\ role = "request" \/ hd.handler = "headers" => pos <= last + 1
         /\ rc = "OK" => hd.handler = "headers"
         /\ phase \in {"answer", "https"} => role = "request"
         /\ Limited(role, hd.str) /\ UriLimited(role, hd.handler, hd.str)
<1>0. hd \in HeadState /\ hd.str \in Strs /\ hd.handler \in {"line", "headers"}
  BY DEF TypeInv, HeadState
<1>1. hd.state \in DOMAIN Table
  <2>1. role \in {"request", "response"}
    BY DEF TypeInv, TypeOK
  <2>2. hd.state \in CASE role = "request" /\ hd.handler = "line" ->
                           DOMAIN RequestLine
                       [] role = "response" /\ hd.handler = "line" ->
                           DOMAIN ResponseLine
                       [] OTHER -> DOMAIN HeaderLine
    BY DEF TypeInv, TypeOK
  <2> QED BY <1>0, <2>1, <2>2 DEF Table
<1>2. Reach(hd.str, BufSize)
  BY DEF TypeInv, TypeOK, Reach
<1>3. Limited(role, hd.str) /\ UriLimited(role, hd.handler, hd.str)
  BY StrLimited
<1>4. /\ role \in {"request", "response"} /\ rc \in {"AGAIN", "OK"}
      /\ phase \in Phases /\ cuts \in 0 .. MaxCuts
  BY DEF TypeInv, TypeOK, Phases
<1>5. pos \in Nat \ {0} /\ last \in 0 .. BufSize /\ BufSize \in Nat
  <2>1. pos \in 1 .. (BufSize + 2) /\ last \in 0 .. BufSize
    BY DEF TypeInv, TypeOK
  <2> QED BY ONLY <2>1, Limits
<1>6. /\ pos <= last + 2
      /\ Reach(hd.str, pos - 1)
      /\ role = "request" \/ hd.handler = "headers" => pos <= last + 1
      /\ rc = "OK" => hd.handler = "headers"
      /\ phase \in {"answer", "https"} => role = "request"
  BY DEF TypeInv
<1> QED BY <1>0, <1>1, <1>2, <1>3, <1>4, <1>5, <1>6

LEMMA Failing ==
  ASSUME TypeInv, recv, Fails, UNCHANGED <<role, heads>>, cuts' \in 0 .. MaxCuts
  PROVE  TypeInv'
<1>1. /\ last' \in 0 .. BufSize /\ last' >= last /\ last \in Nat
      /\ pos' = pos /\ rc' = rc /\ hd' = hd /\ phase' = "error"
  BY Received DEF Fails
<1>2. /\ hd \in HeadState /\ hd.state \in DOMAIN Table
      /\ rc \in {"AGAIN", "OK"}
      /\ pos \in Nat \ {0} /\ pos <= last + 2
      /\ Reach(hd.str, pos - 1) /\ Reach(hd.str, BufSize)
      /\ role = "request" \/ hd.handler = "headers" => pos <= last + 1
      /\ rc = "OK" => hd.handler = "headers"
      /\ Limited(role, hd.str) /\ UriLimited(role, hd.handler, hd.str)
  BY TypeParts
<1>3. Table' = Table
  BY <1>1 DEF Table
<1>4. pos' \in 1 .. (last' + 2)
      /\ (role = "request" \/ hd.handler = "headers" => pos' <= last' + 1)
  <2>1. PICK x \in Nat, y \in Nat, z \in Nat :
          x = pos /\ y = last /\ z = last'
    BY <1>1, <1>2, Limits
  <2>2. x >= 1 /\ x <= y + 2 /\ y <= z
        /\ (role = "request" \/ hd.handler = "headers" => x <= y + 1)
    BY <1>1, <1>2, <2>1
  <2>3. x \in 1 .. (z + 2)
        /\ (role = "request" \/ hd.handler = "headers" => x <= z + 1)
    BY <2>2
  <2> QED BY <1>1, <2>1, <2>3
<1> QED BY <1>1, <1>2, <1>3, <1>4, Retyped DEF Phases

LEMMA Waiting ==
  ASSUME TypeInv, phase = "reading", recv, NEW k, k = Parse(Table, last'),
         k.rc = "AGAIN", NEW skipped \in {0, 1},
         skipped = 1 => role = "response" /\ hd.handler = "line",
         WantsMore(k, skipped), UNCHANGED <<role, heads>>, cuts' \in 0 .. MaxCuts
  PROVE  TypeInv'
<1>1. CASE Full
  BY <1>1, Failing DEF WantsMore
<1>2. CASE ~Full
  <2>1. /\ last' \in 0 .. BufSize /\ last' >= pos - 1 /\ pos \in Nat \ {0}
        /\ BufSize \in Nat
    BY Received, Limits
  <2>2. Parsed(Table, last', k)
    BY <2>1, ParseParsed
  <2>3. /\ k.str \in Strs /\ Reach(k.str, k.p - 1) /\ k.p = last' + 1
        /\ k.state \in DOMAIN Table
        /\ Limited(role, k.str) /\ UriLimited(role, hd.handler, k.str)
    BY <2>2 DEF Parsed
  <2>4. /\ pos' = last' + 1 + skipped /\ rc' = "AGAIN" /\ phase' = "reading"
        /\ hd' = [hd EXCEPT !.state = k.state, !.str = k.str]
    BY <1>2, <2>3 DEF WantsMore
  <2>5. hd \in HeadState
    BY TypeParts
  <2>6. k.state \in State
    BY <2>3 DEF Table, State
  <2>7. /\ hd' \in HeadState /\ hd'.str = k.str /\ hd'.state = k.state
        /\ hd'.handler = hd.handler
    BY <2>3, <2>4, <2>5, <2>6 DEF HeadState
  <2>8. Table' = Table
    BY <2>7 DEF Table
  <2>9. Reach(k.str, pos' - 1) /\ Reach(k.str, BufSize)
    BY <2>1, <2>3, <2>4 DEF Reach, Strs, Place
  <2>10. pos' \in 1 .. (last' + 2)
         /\ (role = "request" \/ hd'.handler = "headers" => pos' <= last' + 1)
    BY <2>1, <2>4, <2>7
  <2> QED BY <2>1, <2>3, <2>4, <2>7, <2>8, <2>9, <2>10, Retyped DEF Phases
<1> QED BY <1>1, <1>2

(* A line was read; the next is a header.                                  *)
LEMMA LineRead ==
  ASSUME TypeInv, recv, NEW k, k = Parse(Table, last'), pos' = k.p,
         hd' \in HeadState, hd'.str = k.str, hd'.handler = "headers",
         hd'.state \in DOMAIN HeaderLine, rc' \in {"AGAIN", "OK"},
         phase' \in Phases \ {"answer", "https"},
         UNCHANGED <<role, heads>>, cuts' \in 0 .. MaxCuts, k.rc # "AGAIN",
         hd.handler = "line" /\ role = "request" => k.str["uri"].len <= UriMax
  PROVE  TypeInv'
<1>1. /\ last' \in 0 .. BufSize /\ last' >= pos - 1 /\ pos \in Nat \ {0}
      /\ BufSize \in Nat
  BY Received, Limits
<1>2. Parsed(Table, last', k)
  BY <1>1, ParseParsed
<1>3. /\ k.p \in 1 .. (last' + 1) /\ k.str \in Strs /\ Reach(k.str, k.p - 1)
      /\ Limited(role, k.str) /\ UriLimited(role, hd.handler, k.str)
  BY <1>2 DEF Parsed
<1>3a. UriLimited(role, hd'.handler, k.str)
  <2>1. hd.handler \in {"line", "headers"}
    BY TypeParts
  <2> QED BY <1>3, <2>1 DEF UriLimited
<1>4. Reach(k.str, BufSize)
  BY <1>1, <1>3 DEF Reach, Strs, Place
<1>5. PICK n \in Nat : n = last' /\ pos' \in 1 .. (n + 1)
  BY <1>1, <1>3
<1>6. pos' \in 1 .. (n + 2) /\ pos' <= n + 1
  BY <1>5
<1>7. hd'.state \in DOMAIN Table'
  BY DEF Table
<1> QED BY <1>1, <1>3, <1>3a, <1>4, <1>5, <1>6, <1>7, Retyped

LEMMA StepRequestLine ==
  TypeInv /\ http_request_head_process_request_line => TypeInv'
<1> SUFFICES ASSUME TypeInv, http_request_head_process_request_line
             PROVE  TypeInv'
  OBVIOUS
<1> DEFINE k == Parse(RequestLine, last')
<1>1. /\ phase = "reading" /\ role = "request" /\ hd.handler = "line" /\ recv
      /\ UNCHANGED <<role, heads, cuts>>
  BY DEF http_request_head_process_request_line
<1>2. Table = RequestLine /\ cuts' \in 0 .. MaxCuts /\ hd \in HeadState
  BY <1>1, TypeParts DEF Table
<1>3. Parsed(Table, last', k)
  BY <1>1, <1>2, Received, ParseParsed, Limits
<1>4. k.str \in Strs
  BY <1>3 DEF Parsed
<1>5. CASE /\ k.rc = "DONE" /\ pos' = k.p /\ rc' = "AGAIN"
           /\ k.str["uri"].len <= UriMax
           /\ hd' = http_request_line_done(k) /\ UNCHANGED phase
  <2> HIDE DEF k
  <2>1. hd' = [hd EXCEPT !.handler = "headers", !.state = "s_start",
                         !.str = k.str]
    BY <1>5 DEF http_request_line_done
  <2>2. "s_start" \in DOMAIN HeaderLine /\ "s_start" \in State
    BY DEF HeaderLine, State
  <2>3. hd' \in HeadState /\ hd'.str = k.str /\ hd'.handler = "headers"
        /\ hd'.state \in DOMAIN HeaderLine
    BY <1>2, <1>4, <2>1, <2>2 DEF HeadState
  <2>4. k = Parse(Table, last')
    BY <1>2 DEF k
  <2>5. phase' \in Phases \ {"answer", "https"} /\ k.rc # "AGAIN"
        /\ rc' \in {"AGAIN", "OK"} /\ pos' = k.p
    BY <1>1, <1>5 DEF Phases
  <2> QED BY <1>1, <1>2, <1>5, <2>3, <2>4, <2>5, LineRead
<1>6. CASE Fails
  BY <1>1, <1>2, <1>6, Failing
<1>7. CASE k.rc = "AGAIN" /\ WantsMore(k, 0)
  BY <1>1, <1>2, <1>7, Waiting
<1> QED
  <2> HIDE DEF k
  <2> QED BY <1>5, <1>6, <1>7 DEF http_request_head_process_request_line, k

LEMMA StepResponseLine ==
  TypeInv /\ http_response_head_process_response_line => TypeInv'
<1> SUFFICES ASSUME TypeInv, http_response_head_process_response_line
             PROVE  TypeInv'
  OBVIOUS
<1> DEFINE k == Parse(ResponseLine, last')
<1>1. /\ phase = "reading" /\ role = "response" /\ hd.handler = "line" /\ recv
      /\ UNCHANGED <<role, heads>> /\ cuts < MaxCuts
      /\ cuts' = IF k.rc = "AGAIN" THEN cuts + 1 ELSE cuts
  BY DEF http_response_head_process_response_line
<1>2. Table = ResponseLine /\ hd \in HeadState
  BY <1>1, TypeParts DEF Table
<1>2a. cuts' \in 0 .. MaxCuts
  <2>1. cuts \in 0 .. MaxCuts /\ MaxCuts \in Nat
    BY TypeParts, Limits
  <2> HIDE DEF k
  <2> QED BY <1>1, <2>1
<1>3. Parsed(Table, last', k)
  BY <1>1, <1>2, Received, ParseParsed, Limits
<1>4. k.str \in Strs
  BY <1>3 DEF Parsed
<1>5. CASE /\ k.rc = "DONE" /\ pos' = k.p /\ rc' = "AGAIN"
           /\ hd' = http_response_line_done(k) /\ UNCHANGED phase
  <2> HIDE DEF k
  <2>1. hd' = [hd EXCEPT !.handler = "headers", !.state = Renumbered(hd.state),
                         !.str = k.str]
    BY <1>2, <1>5 DEF http_response_line_done, HeadState
  <2>2. Renumbered(hd.state) \in DOMAIN HeaderLine
    BY DEF HeaderLine, Renumbered
  <2>2a. Renumbered(hd.state) \in State
    BY <2>2 DEF State
  <2>3. hd' \in HeadState /\ hd'.str = k.str /\ hd'.handler = "headers"
        /\ hd'.state \in DOMAIN HeaderLine
    BY <1>2, <1>4, <2>1, <2>2, <2>2a DEF HeadState
  <2>4. k = Parse(Table, last')
    BY <1>2 DEF k
  <2>5. phase' \in Phases \ {"answer", "https"} /\ k.rc # "AGAIN"
        /\ rc' \in {"AGAIN", "OK"} /\ pos' = k.p
    BY <1>1, <1>5 DEF Phases
  <2> QED BY <1>1, <1>2, <1>2a, <2>3, <2>4, <2>5, LineRead
<1>6. CASE Fails
  BY <1>1, <1>2a, <1>6, Failing
<1>7. CASE k.rc = "AGAIN" /\ WantsMore(k, 1)
  BY <1>1, <1>2, <1>2a, <1>7, Waiting
<1> QED
  <2> HIDE DEF k
  <2> QED BY <1>5, <1>6, <1>7 DEF http_response_head_process_response_line, k

(* What a header leaves in the head.                                       *)
LEMMA HeaderTyped ==
  ASSUME hd \in HeadState, NEW k, k.str \in Strs
  PROVE  /\ RequestHeader(k) \in HeadState /\ ResponseHeader(k) \in HeadState
         /\ RequestHeader(k).str = k.str /\ ResponseHeader(k).str = k.str
         /\ RequestHeader(k).handler = hd.handler
         /\ ResponseHeader(k).handler = hd.handler
         /\ RequestHeader(k).state = "s_start"
         /\ ResponseHeader(k).state = "s_start"
<1>1. "s_start" \in State
  BY DEF State, HeaderLine
<1>2. k.str["header_value"] \in Place /\ k.str["header_value"].len \in Nat
  BY DEF Strs, Place, Field
<1>3. PICK v, b1, b2, b3, c : /\ v = k.str["header_value"]
        /\ b1 = Is(k, <<"Content-", "Length">>)
        /\ b2 = Is(k, <<"Transfer-", "Encoding">>)
        /\ b3 = Is(k, <<"Connection">>) /\ c = (v.len > CloseLen)
  OBVIOUS
<1>4. b1 \in BOOLEAN /\ b2 \in BOOLEAN /\ b3 \in BOOLEAN /\ c \in BOOLEAN
      /\ v \in Place
  BY <1>2, <1>3 DEF Is
<1> QED BY <1>1, <1>3, <1>4 DEF RequestHeader, ResponseHeader, HeadState

LEMMA StepHeaders == TypeInv /\ process_headers => TypeInv'
<1> SUFFICES ASSUME TypeInv, process_headers PROVE TypeInv'
  OBVIOUS
<1> DEFINE k == Parse(HeaderLine, last')
           done == [hd EXCEPT !.str = k.str, !.state = "s_start"]
<1>1. /\ phase = "reading" /\ hd.handler = "headers" /\ recv
      /\ UNCHANGED <<role, heads, cuts>>
  BY DEF process_headers
<1>2. Table = HeaderLine /\ cuts' \in 0 .. MaxCuts /\ hd \in HeadState
      /\ role \in {"request", "response"}
  BY <1>1, TypeParts DEF Table
<1>3. Parsed(Table, last', k)
  BY <1>1, <1>2, Received, ParseParsed, Limits
<1>4. k.str \in Strs
  BY <1>3 DEF Parsed
<1>4a. k = Parse(Table, last')
  BY <1>2
<1>s. "s_start" \in DOMAIN HeaderLine /\ "s_start" \in State
  BY DEF HeaderLine, State
<1>5. CASE /\ k.rc = "OK" /\ pos' = k.p /\ rc' = "OK" /\ UNCHANGED phase
           /\ hd' = IF role = "request" THEN RequestHeader(k)
                                        ELSE ResponseHeader(k)
  <2> HIDE DEF k
  <2>1. hd' \in HeadState /\ hd'.str = k.str /\ hd'.handler = "headers"
        /\ hd'.state \in DOMAIN HeaderLine
    <3>1. hd' \in {RequestHeader(k), ResponseHeader(k)}
      BY <1>5
    <3> QED BY <3>1, <1>1, <1>2, <1>4, <1>s, HeaderTyped
  <2>2. phase' \in Phases \ {"answer", "https"} /\ k.rc # "AGAIN"
        /\ rc' \in {"AGAIN", "OK"} /\ pos' = k.p
    BY <1>1, <1>5 DEF Phases
  <2> QED BY <1>1, <1>2, <1>4a, <2>1, <2>2, LineRead
<1>6. CASE Fails
  BY <1>1, <1>2, <1>6, Failing
<1>7. CASE /\ k.rc = "HTTP_PARSE_HEADER_DONE" /\ pos' = k.p /\ rc' = "AGAIN"
           /\ phase' \in {"done", "error"}
           /\ hd' \in {done, [done EXCEPT !.body_type = BodyType(done)]}
  <2>1. done \in HeadState /\ done.handler = "headers" /\ done.str = k.str
        /\ done.state = "s_start"
    <3> HIDE DEF k
    <3> QED BY <1>1, <1>2, <1>4, <1>s DEF HeadState
  <2> HIDE DEF k, done
  <2>2. hd' \in HeadState /\ hd'.str = k.str /\ hd'.handler = "headers"
        /\ hd'.state \in DOMAIN HeaderLine
    <3>1. BodyType(done) \in {"NULL", "CONTENT", "CHUNK"}
      BY DEF BodyType
    <3> QED BY <1>7, <1>s, <2>1, <3>1 DEF HeadState
  <2>3. phase' \in Phases \ {"answer", "https"} /\ k.rc # "AGAIN"
        /\ rc' \in {"AGAIN", "OK"} /\ pos' = k.p
    BY <1>1, <1>7 DEF Phases
  <2> QED BY <1>1, <1>2, <1>4a, <2>2, <2>3, LineRead
<1>8. CASE k.rc = "AGAIN" /\ WantsMore(k, 0)
  BY <1>1, <1>2, <1>8, Waiting
<1> QED
  <2>1. \/ /\ k.rc = "OK" /\ pos' = k.p /\ rc' = "OK" /\ UNCHANGED phase
           /\ hd' = IF role = "request" THEN RequestHeader(k)
                                        ELSE ResponseHeader(k)
        \/ Fails
        \/ /\ k.rc = "HTTP_PARSE_HEADER_DONE" /\ pos' = k.p /\ rc' = "AGAIN"
           /\ phase' \in {"done", "error"}
           /\ hd' \in {done, [done EXCEPT !.body_type = BodyType(done)]}
        \/ k.rc = "AGAIN" /\ WantsMore(k, 0)
    <3> HIDE DEF k
    <3> QED BY DEF process_headers, k
  <2> HIDE DEF k, done
  <2> QED BY <1>5, <1>6, <1>7, <1>8, <2>1

(* Another head begins, with an entry of the pool that was freed.          *)
LEMMA Anew ==
  /\ create(Zeroed) \in HeadState /\ create(Zeroed).handler = "line"
  /\ \A f \in Field : create(Zeroed).str[f] = NoString
  /\ create(Zeroed).content_length = NoString
  /\ create(Zeroed).body_type = "NULL"
  /\ ~create(Zeroed).transfer_encoding /\ ~create(Zeroed).keepalive
  /\ create(Zeroed).state = IF role = "request" THEN "s_start" ELSE "start"
<1>1. NoString \in Place
  BY DEF NoString, Place
<1>2. [f \in Field |-> NoString] \in Strs
  BY <1>1 DEF Strs
<1>3. "s_start" \in State /\ "start" \in State
  BY DEF State, HeaderLine, ResponseLine
<1>4. PICK str : str = [f \in Field |-> NoString]
  OBVIOUS
<1> QED BY <1>1, <1>2, <1>3, <1>4 DEF create, Zeroed, HeadState

LEMMA Restarted ==
  ASSUME TypeInv, Len(heads) > 1, heads' = Tail(heads), role' = role,
         last' \in 0 .. BufSize, pos' = 1, rc' = "AGAIN",
         hd' = create(Zeroed), phase' \in {"reading", "garbled"},
         cuts' \in 0 .. MaxCuts
  PROVE  TypeInv'
<1>1. heads' \in Seq(Message) /\ Len(heads') \in 1 .. 2
  BY DEF TypeInv
<1>2. \A f \in Field : hd'.str[f].data = 0 /\ hd'.str[f].len = 0
  BY Anew DEF NoString
<1>3. hd' \in HeadState /\ hd'.handler = "line"
  BY Anew
<1>4. Reach(hd'.str, pos' - 1)
  BY <1>2 DEF Reach
<1>5. /\ role' \in {"request", "response"} /\ BufSize \in Nat
      /\ role' = "request" => "s_start" \in DOMAIN RequestLine
      /\ "start" \in DOMAIN ResponseLine
  BY Limits DEF TypeInv, TypeOK, RequestLine, ResponseLine
<1>6. hd'.state \in CASE role' = "request" /\ hd'.handler = "line" ->
                           DOMAIN RequestLine
                       [] role' = "response" /\ hd'.handler = "line" ->
                           DOMAIN ResponseLine
                       [] OTHER -> DOMAIN HeaderLine
  BY <1>3, <1>5, Anew
<1>7. /\ pos' \in 1 .. (BufSize + 2) /\ pos' <= last' + 1 /\ pos' <= last' + 2
  <2>1. PICK n \in Nat, b \in Nat : n = last' /\ b = BufSize
    BY <1>5
  <2>2. 1 \in 1 .. (b + 2) /\ 1 <= n + 1 /\ 1 <= n + 2
    OBVIOUS
  <2> QED BY <2>1, <2>2
<1>8. \A f \in Field : /\ hd'.str[f].data \in 0 .. BufSize
                       /\ hd'.str[f].len \in 0 .. BufSize
  BY <1>2, <1>5
<1>9. DOMAIN hd'.str = Field /\ hd'.keepalive \in BOOLEAN
      /\ hd'.body_type \in {"NULL", "CONTENT", "CHUNK"}
  BY <1>3 DEF HeadState, Strs
<1>10. /\ hd'.str["method"].len = 0 /\ hd'.str["http_code"].len = 0
       /\ hd'.str["http_version"].len = 0 /\ hd'.str["uri"].len = 0
  BY <1>2 DEF Field
<1>11. TypeOK'
  BY <1>3, <1>5, <1>6, <1>7, <1>8, <1>9, <1>10, Limits DEF TypeOK
<1> QED BY <1>1, <1>3, <1>4, <1>7, <1>11 DEF TypeInv

LEMMA StepRequest == TypeInv /\ tunnel_local_process_request => TypeInv'
<1> SUFFICES ASSUME TypeInv, tunnel_local_process_request PROVE TypeInv'
  OBVIOUS
<1>1. /\ UNCHANGED <<role, heads>> /\ last' = last /\ pos' = pos /\ rc' = rc
      /\ hd' = hd /\ cuts' = cuts /\ role = "request"
      /\ phase' \in Phases
  BY DEF tunnel_local_process_request, Phases
<1> QED BY <1>1 DEF TypeInv, TypeOK, Phases

LEMMA StepGone == TypeInv /\ Gone => TypeInv'
BY DEF TypeInv, TypeOK, Gone

LEMMA StepFinish == TypeInv /\ tunnel_process_finish => TypeInv'
<1> SUFFICES ASSUME TypeInv, tunnel_process_finish PROVE TypeInv'
  OBVIOUS
<1>1. /\ phase = "answer" /\ Len(heads) > 1 /\ heads' = Tail(heads)
      /\ role' = role /\ cuts' = cuts /\ last' = Busy /\ pos' = 1
      /\ rc' = "AGAIN" /\ hd' = create(Zeroed)
      /\ phase' \in {"reading", "garbled"}
  BY DEF tunnel_process_finish, free
<1>2. last' \in 0 .. BufSize
  <2>1. PICK x \in Nat, y \in Nat, b \in Nat : x = pos /\ y = last /\ b = BufSize
    BY TypeParts
  <2>2. x >= 1 /\ x <= y + 1 /\ y <= b
    BY <1>1, <2>1, TypeParts
  <2>3. y + 1 - x \in 0 .. b
    BY <2>2
  <2> QED BY <1>1, <2>1, <2>3 DEF Busy
<1>3. cuts' \in 0 .. MaxCuts
  BY <1>1, TypeParts
<1> QED BY <1>1, <1>2, <1>3, Restarted

LEMMA StepNextResponse == TypeInv /\ NextResponse => TypeInv'
<1> SUFFICES ASSUME TypeInv, NextResponse PROVE TypeInv'
  OBVIOUS
<1>1. 0 \in 0 .. BufSize /\ 0 \in 0 .. MaxCuts
  BY Limits
<1> QED BY <1>1, Restarted DEF NextResponse, free

LEMMA TypeNext == TypeInv /\ [Next]_vars => TypeInv'
<1>1. TypeInv /\ UNCHANGED vars => TypeInv'
  BY DEF TypeInv, TypeOK, vars
<1> QED BY <1>1, StepRequestLine, StepResponseLine, StepHeaders, StepRequest,
           StepFinish, StepNextResponse, StepGone DEF Next

-----------------------------------------------------------------------------
(* The heads that are written are messages.                                *)
Bytes == Seq(Tag \X Token)

LEMMA Joined ==
  ASSUME NEW a \in Bytes, NEW b \in Bytes PROVE a \o b \in Bytes
<1> PICK S : S = Tag \X Token
  OBVIOUS
<1>1. a \in Seq(S) /\ b \in Seq(S)
  BY DEF Bytes
<1> QED BY <1>1 DEF Bytes

LEMMA Tuples ==
  ASSUME NEW S
  PROVE  /\ <<>> \in Seq(S)
         /\ \A a \in S : <<a>> \in Seq(S)
         /\ \A a, b \in S : <<a, b>> \in Seq(S)
         /\ \A a, b, c \in S : <<a, b, c>> \in Seq(S)
         /\ \A a, b, c, d, e \in S : <<a, b, c, d, e>> \in Seq(S)
OBVIOUS

LEMMA InBytes ==
  ASSUME NEW f \in Tag, NEW s \in Seq(Token) PROVE In(f, s) \in Bytes
<1> PICK T : T = Tag
  OBVIOUS
<1> PICK S : S = Token
  OBVIOUS
<1>1. s \in Seq(S) /\ f \in T
  OBVIOUS
<1>2. [i \in DOMAIN s |-> <<f, s[i]>>] \in Seq(T \X S)
  BY <1>1
<1> QED BY <1>2 DEF In, Bytes

Flat(ss, f, m) ==
  f = [i \in 1 .. m |-> IF i = 1 THEN ss[i] ELSE f[i - 1] \o ss[i]]
Flattens(ss, m) == \E f : Flat(ss, f, m)

LEMMA FlatEntries ==
  ASSUME NEW ss, NEW m \in Nat, NEW f, Flat(ss, f, m)
  PROVE  \A i \in 1 .. m :
           f[i] = IF i = 1 THEN ss[i] ELSE f[i - 1] \o ss[i]
BY Zenon DEF Flat

LEMMA FlatBytes ==
  ASSUME NEW ss, NEW n \in Nat \ {0}, \A i \in 1 .. n : ss[i] \in Bytes,
         NEW f, Flat(ss, f, n)
  PROVE  f[n] \in Bytes
<1> DEFINE N == {m \in Nat : m + 1 <= n => f[m + 1] \in Bytes}
<1>1. \A i \in 1 .. n : f[i] = IF i = 1 THEN ss[i] ELSE f[i - 1] \o ss[i]
  BY FlatEntries
<1>2. 0 \in N
  BY <1>1
<1>3. ASSUME NEW m \in Nat, m \in N PROVE m + 1 \in N
  <2> SUFFICES ASSUME m + 2 <= n PROVE f[m + 2] \in Bytes
    OBVIOUS
  <2>1. PICK j : j = m + 2
    OBVIOUS
  <2>2. j \in 1 .. n /\ j # 1 /\ j - 1 = m + 1
    BY <2>1
  <2>3. f[j] = f[j - 1] \o ss[j]
    BY <1>1, <2>2
  <2>4. f[j - 1] \in Bytes /\ ss[j] \in Bytes
    BY <1>3, <2>2
  <2>5. f[j] \in Bytes
    BY <2>3, <2>4, Joined
  <2> QED BY <2>1, <2>5
<1>4. n - 1 \in N
  <2>1. n - 1 \in Nat
    OBVIOUS
  <2> HIDE DEF N
  <2> QED BY <1>2, <1>3, <2>1, Induct
<1> QED BY <1>4

LEMMA FlatExists ==
  ASSUME NEW ss, NEW n \in Nat PROVE Flattens(ss, n)
<1> DEFINE M == {m \in Nat : Flattens(ss, m)}
<1>1. 0 \in M
  <2>1. PICK f : f = [i \in 1 .. 0 |-> ss[i]]
    OBVIOUS
  <2>2. f = [i \in 1 .. 0 |-> IF i = 1 THEN ss[i] ELSE f[i - 1] \o ss[i]]
    BY <2>1
  <2>3. Flat(ss, f, 0)
    BY <2>2, Zenon DEF Flat
  <2> QED BY <2>3 DEF Flattens
<1>2. ASSUME NEW m \in Nat, m \in M PROVE m + 1 \in M
  <2>1. PICK g : Flat(ss, g, m)
    BY <1>2 DEF Flattens
  <2>2. PICK x : x = IF m = 0 THEN ss[1] ELSE g[m] \o ss[m + 1]
    OBVIOUS
  <2>3. PICK j : j = m + 1
    OBVIOUS
  <2>4. PICK f : f = [i \in 1 .. j |-> IF i = j THEN x ELSE g[i]]
    OBVIOUS
  <2>5. ASSUME NEW i \in 1 .. j
        PROVE  f[i] = IF i = 1 THEN ss[i] ELSE f[i - 1] \o ss[i]
    <3>1. CASE i = j /\ m = 0
      <4>1. i = 1 /\ f[i] = ss[i]
        BY <2>2, <2>3, <2>4, <3>1
      <4> QED BY <4>1
    <3>2. CASE i = j /\ m # 0
      <4>1. f[i] = x /\ f[i - 1] = g[m] /\ i # 1 /\ i = m + 1
        BY <2>3, <2>4, <3>2
      <4>2. x = f[i - 1] \o ss[i]
        BY <2>2, <3>2, <4>1, Zenon
      <4> QED BY <4>1, <4>2, Zenon
    <3>3. CASE i # j
      <4>1. i \in 1 .. m
        BY <2>3, <3>3
      <4>2. f[i] = g[i] /\ (i # 1 => f[i - 1] = g[i - 1])
        BY <2>3, <2>4, <3>3
      <4>3. g[i] = IF i = 1 THEN ss[i] ELSE g[i - 1] \o ss[i]
        BY <2>1, <4>1, FlatEntries
      <4> QED BY <4>2, <4>3, Zenon
    <3> QED BY <3>1, <3>2, <3>3
  <2>6. f = [i \in 1 .. j |-> IF i = 1 THEN ss[i] ELSE f[i - 1] \o ss[i]]
    BY <2>4, <2>5, Zenon
  <2>7. Flat(ss, f, j)
    BY <2>6, Zenon DEF Flat
  <2>8. Flattens(ss, j)
    BY <2>7 DEF Flattens
  <2> QED BY <2>3, <2>8
<1>3. n \in M
  <2> HIDE DEF M
  <2> QED BY <1>1, <1>2, Induct
<1> QED BY <1>3

LEMMA Flattened ==
  ASSUME NEW ss, NEW n \in Nat \ {0}, Len(ss) = n
  PROVE  \E f : Flat(ss, f, n) /\ FlattenSeq(ss) = f[n]
<1>1. \E f : f = [i \in 1 .. n |-> IF i = 1 THEN ss[i]
                                   ELSE f[i - 1] \o ss[i]]
  BY FlatExists, Zenon DEF Flat, Flattens
<1> DEFINE c == CHOOSE f : f = [i \in 1 .. n |->
                              IF i = 1 THEN ss[i] ELSE f[i - 1] \o ss[i]]
<1>2. Flat(ss, c, n)
  BY <1>1, Zenon DEF Flat
<1>3. n # 0
  OBVIOUS
<1>4. FlattenSeq(ss) = c[n]
  BY <1>3, Zenon DEF FlattenSeq
<1> QED BY <1>2, <1>4

LEMMA FlattenBytes ==
  ASSUME NEW ss, NEW n \in Nat, Len(ss) = n, n = 0 => ss = <<>>,
         \A i \in 1 .. n : ss[i] \in Bytes
  PROVE  FlattenSeq(ss) \in Bytes
<1>1. CASE n = 0
  <2>1. FlattenSeq(ss) = <<>>
    BY <1>1 DEF FlattenSeq
  <2> QED BY <2>1, Tuples DEF Bytes
<1>2. CASE n # 0
  BY <1>2, Flattened, FlatBytes
<1> QED BY <1>1, <1>2

LEMMA Spelled ==
  /\ {"GE", "CON", "NECT", "H", "T", "P", "a", "b", "1", "2", "Content-",
      "Length", "Transfer-", "Encoding", "Connection", "Other", "close",
      "keep-", "alive", "chunked", "sp", "/", ":", ".", "-", "cr", "lf",
      "ctl"} \subseteq Token
  /\ {"", "name", "method", "schema", "host", "port", "uri", "http_version",
      "http_code", "http_string"} \subseteq Tag
BY DEF Token, Printed, Letter, Upper, Lower, Digit, Word, Tag, Field

LEMMA HeaderBytes ==
  /\ Sep(CRLF) \in Bytes
  /\ \A x \in DOMAIN Headers : Headers[x] \in Bytes
<1>1. ASSUME NEW name \in Seq(Token), NEW value \in Seq(Token)
      PROVE  Header(name, value) \in Bytes
  <2>1. <<":">> \o value \o CRLF \in Seq(Token)
    <3> PICK S : S = Token
      OBVIOUS
    <3>1. <<":">> \in Seq(S) /\ CRLF \in Seq(S) /\ value \in Seq(S)
      BY Spelled, Tuples DEF CRLF
    <3>2. \A a, b, c \in Seq(S) : a \o b \o c \in Seq(S)
      OBVIOUS
    <3> QED BY <3>1, <3>2
  <2>2. In("name", name) \in Bytes /\ Sep(<<":">> \o value \o CRLF) \in Bytes
    BY <2>1, InBytes, Spelled DEF Sep
  <2> QED BY <2>2, Joined DEF Header
<1>2. /\ <<"Content-", "Length">> \in Seq(Token)
      /\ <<"sp", "1", "2">> \in Seq(Token)
      /\ <<"Transfer-", "Encoding">> \in Seq(Token)
      /\ <<"sp", "chunked">> \in Seq(Token)
      /\ <<"Connection">> \in Seq(Token)
      /\ <<"sp", "close">> \in Seq(Token)
      /\ <<"keep-", "alive">> \in Seq(Token)
      /\ <<"Other">> \in Seq(Token) /\ <<>> \in Seq(Token)
  BY Spelled, Tuples
<1>3. <<"sp", "a", ":", "b">> \in Seq(Token)
  <2> PICK S : S = Token
    OBVIOUS
  <2>1. \A a, b, c, d \in S : <<a, b, c, d>> \in Seq(S)
    OBVIOUS
  <2> QED BY <2>1, Spelled
<1>4. /\ DOMAIN Headers = {"length", "chunked", "close", "keep", "other", "bare"}
      /\ Headers["length"] = Header(<<"Content-", "Length">>, <<"sp", "1", "2">>)
      /\ Headers["chunked"] = Header(<<"Transfer-", "Encoding">>,
                                     <<"sp", "chunked">>)
      /\ Headers["close"] = Header(<<"Connection">>, <<"sp", "close">>)
      /\ Headers["keep"] = Header(<<"Connection">>, <<"keep-", "alive">>)
      /\ Headers["other"] = Header(<<"Other">>, <<"sp", "a", ":", "b">>)
      /\ Headers["bare"] = Header(<<"Other">>, <<>>)
  BY DEF Headers
<1>5. CRLF \in Seq(Token)
  BY Spelled, Tuples DEF CRLF
<1>6. Sep(CRLF) \in Bytes
  BY <1>5, InBytes, Spelled DEF Sep
<1>7. ASSUME NEW x \in DOMAIN Headers PROVE Headers[x] \in Bytes
  <2>1. Headers["length"] \in Bytes /\ Headers["chunked"] \in Bytes
    BY <1>1, <1>2, <1>4
  <2>2. Headers["close"] \in Bytes /\ Headers["keep"] \in Bytes
    BY <1>1, <1>2, <1>4
  <2>3. Headers["other"] \in Bytes /\ Headers["bare"] \in Bytes
    BY <1>1, <1>2, <1>3, <1>4
  <2> QED BY <1>4, <2>1, <2>2, <2>3
<1> QED BY <1>6, <1>7

LEMMA StatusBytes == StatusLines \subseteq Bytes
<1> SUFFICES ASSUME NEW line \in StatusLines PROVE line \in Bytes
  OBVIOUS
<1>1. PICK s \in {<<"GE">>, <<"GE", "sp">>} :
        line = Sep(<<"H", "T", "T", "P", "/">>)
               \o In("http_version", <<"1", ".">>) \o Sep(<<"sp">>)
               \o In("http_code", <<"2", "1">>) \o Sep(<<"sp">>)
               \o In("http_string", s) \o Sep(CRLF)
  BY DEF StatusLines
<1>2. /\ <<"H", "T", "T", "P", "/">> \in Seq(Token)
      /\ <<"1", ".">> \in Seq(Token) /\ <<"sp">> \in Seq(Token)
      /\ <<"2", "1">> \in Seq(Token) /\ s \in Seq(Token)
  <2>1. /\ <<"H", "T", "T", "P", "/">> \in Seq(Token)
        /\ <<"1", ".">> \in Seq(Token) /\ <<"sp">> \in Seq(Token)
        /\ <<"2", "1">> \in Seq(Token)
    BY Spelled, Tuples
  <2>2. <<"GE">> \in Seq(Token) /\ <<"GE", "sp">> \in Seq(Token)
    BY Spelled, Tuples
  <2> QED BY <2>1, <2>2
<1>3. /\ Sep(<<"H", "T", "T", "P", "/">>) \in Bytes
      /\ In("http_version", <<"1", ".">>) \in Bytes /\ Sep(<<"sp">>) \in Bytes
      /\ In("http_code", <<"2", "1">>) \in Bytes
      /\ In("http_string", s) \in Bytes
  BY <1>2, InBytes, Spelled DEF Sep
<1>4. \A a, b, c, d, e, f, g \in Bytes :
        a \o b \o c \o d \o e \o f \o g \in Bytes
  BY Joined
<1> QED BY <1>1, <1>3, <1>4, HeaderBytes

LEMMA RequestBytes == RequestLines \subseteq Bytes /\ RequestLines # {}
<1> DEFINE V == Sep(<<"sp">>) \o In("http_version", <<"H", "/", "1">>)
                \o Sep(CRLF)
           uri == In("uri", <<"/", "a">>)
           some == Sep(<<":">>) \o In("port", <<"2", "1">>)
           Abs(port) == In("schema", <<"a", "b">>) \o Sep(<<":", "/", "/">>)
                        \o In("host", <<"b", ".", "a">>) \o port \o uri
           con == In("method", <<"CON", "NECT">>) \o Sep(<<"sp">>)
                  \o In("host", <<"a", "-", "1">>) \o Sep(<<":">>)
                  \o In("port", <<"2">>) \o V
<1>1. /\ <<"sp">> \in Seq(Token) /\ <<"H", "/", "1">> \in Seq(Token)
      /\ <<"/", "a">> \in Seq(Token) /\ <<":">> \in Seq(Token)
      /\ <<"2", "1">> \in Seq(Token) /\ <<"a", "b">> \in Seq(Token)
      /\ <<":", "/", "/">> \in Seq(Token) /\ <<"b", ".", "a">> \in Seq(Token)
      /\ <<"CON", "NECT">> \in Seq(Token) /\ <<"a", "-", "1">> \in Seq(Token)
      /\ <<"2">> \in Seq(Token) /\ <<"GE", "T">> \in Seq(Token)
      /\ CRLF \in Seq(Token) /\ <<>> \in Seq(Token)
  BY Spelled, Tuples DEF CRLF
<1>2. /\ Sep(<<"sp">>) \in Bytes /\ Sep(<<":">>) \in Bytes
      /\ Sep(<<":", "/", "/">>) \in Bytes
      /\ In("http_version", <<"H", "/", "1">>) \in Bytes /\ uri \in Bytes
      /\ In("port", <<"2", "1">>) \in Bytes /\ In("port", <<"2">>) \in Bytes
      /\ In("schema", <<"a", "b">>) \in Bytes
      /\ In("host", <<"b", ".", "a">>) \in Bytes
      /\ In("host", <<"a", "-", "1">>) \in Bytes
      /\ In("method", <<"GE", "T">>) \in Bytes
      /\ In("method", <<"CON", "NECT">>) \in Bytes
      /\ Sep(CRLF) \in Bytes /\ Sep(<<>>) \in Bytes
  BY <1>1, InBytes, Spelled DEF Sep
<1>3. <<>> \in Bytes
  BY Tuples DEF Bytes
<1>4. V \in Bytes /\ some \in Bytes
  BY <1>2, Joined
<1>5. ASSUME NEW port \in Bytes PROVE Abs(port) \in Bytes
  <2>1. \A a, b, c, d, e \in Bytes : a \o b \o c \o d \o e \in Bytes
    BY Joined
  <2> QED BY <1>2, <2>1
<1>6. con \in Bytes
  <2>1. \A a, b, c, d, e, f \in Bytes : a \o b \o c \o d \o e \o f \in Bytes
    BY Joined
  <2> HIDE DEF V
  <2> QED BY <1>2, <1>4, <2>1
<1>7. ASSUME NEW lead \in {<<>>, CRLF}, NEW to \in Bytes
      PROVE  Sep(lead) \o In("method", <<"GE", "T">>) \o Sep(<<"sp">>) \o to
               \o V \in Bytes
  <2>1. \A a, b, c, d, e \in Bytes : a \o b \o c \o d \o e \in Bytes
    BY Joined
  <2>2. Sep(lead) \in Bytes
    BY <1>2
  <2> HIDE DEF V
  <2> QED BY <1>2, <1>4, <2>1, <2>2
<1>8. \A to \in {uri} \cup {Abs(port) : port \in {<<>>, some}} : to \in Bytes
  <2> HIDE DEF uri, Abs, some
  <2> QED BY <1>2, <1>3, <1>4, <1>5
<1>9. RequestLines =
        {Sep(lead) \o In("method", <<"GE", "T">>) \o Sep(<<"sp">>) \o to \o V :
           lead \in {<<>>, CRLF},
           to \in {uri} \cup {Abs(port) : port \in {<<>>, some}}}
        \cup {con}
  BY SMT DEF RequestLines
<1> DEFINE Tos == {uri} \cup {Abs(port) : port \in {<<>>, some}}
           Leads == {<<>>, CRLF}
           Line(lead, to) == Sep(lead) \o In("method", <<"GE", "T">>)
                               \o Sep(<<"sp">>) \o to \o V
           All == {Line(lead, to) : lead \in Leads, to \in Tos}
<1>10. \A lead \in Leads : \A to \in Tos : Line(lead, to) \in Bytes
  <2> HIDE DEF V, uri, some, Abs, con
  <2> QED BY <1>7, <1>8
<1>11. All \subseteq Bytes
  <2> HIDE DEF Line, Tos, Leads
  <2> QED BY <1>10
<1>12. RequestLines = All \cup {con}
  BY <1>9
<1> HIDE DEF V, uri, some, Abs, con, Tos, Leads, Line, All
<1> QED BY <1>6, <1>11, <1>12

(* Of every two that contradict each other, there is one.                  *)
Consistent(done) ==
  /\ ~{"length", "chunked"} \subseteq done
  /\ ~{"close", "keep"} \subseteq done

(* A sound head is a line, headers of one of the sets, and an empty line.  *)
Composed(m, line, n, names, ns) ==
  /\ n \in Nat /\ names \in [1 .. n -> ns] /\ ns \subseteq DOMAIN Headers
  /\ Consistent(ns) /\ m.names = ToSet(names)
  /\ m.damaged = 0 /\ m.longer = FALSE
  /\ m.bytes = line \o FlattenSeq([i \in DOMAIN names |-> Headers[names[i]]])
               \o Sep(CRLF)

LEMMA SoundComposed ==
  ASSUME NEW lines, NEW max, NEW m \in Sound(lines, max)
  PROVE  /\ m = [bytes |-> m.bytes, names |-> m.names, damaged |-> m.damaged,
            longer |-> m.longer]
         /\ \E line, n, names, ns : line \in lines /\ Composed(m, line, n, names, ns)
<1> DEFINE B(line, names) ==
      line \o FlattenSeq([i \in DOMAIN names |-> Headers[names[i]]])
        \o Sep(CRLF)
<1>0. Sound(lines, max) =
        {[bytes |-> B(line, names), names |-> ToSet(names), damaged |-> 0,
           longer |-> FALSE] :
           line \in lines,
           names \in UNION {SetToSeqs(ns) : ns \in NameSets(max)}}
  BY DEF Sound
<1>1. PICK line \in lines,
           names \in UNION {SetToSeqs(ns) : ns \in NameSets(max)} :
        m = [bytes |-> B(line, names), names |-> ToSet(names), damaged |-> 0,
           longer |-> FALSE]
  <2> HIDE DEF B
  <2> QED BY <1>0, SMT
<1> PICK ns \in NameSets(max) : names \in SetToSeqs(ns)
  OBVIOUS
<1>2. ns \subseteq DOMAIN Headers /\ Consistent(ns)
  BY DEF NameSets, Consistent
<1>3. IsFiniteSet(ns) /\ Cardinality(ns) \in Nat
  <2>1. IsFiniteSet(DOMAIN Headers)
    <3>1. DOMAIN Headers = {"length", "chunked", "close", "keep", "other"}
                             \cup {"bare"}
      BY DEF Headers
    <3>2. IsFiniteSet({"length"})
      BY FS_Singleton
    <3>3. IsFiniteSet({"length"} \cup {"chunked"})
      BY <3>2, FS_AddElement
    <3>4. IsFiniteSet(({"length"} \cup {"chunked"}) \cup {"close"})
      BY <3>3, FS_AddElement
    <3>5. IsFiniteSet((({"length"} \cup {"chunked"}) \cup {"close"})
                        \cup {"keep"})
      BY <3>4, FS_AddElement
    <3>6. IsFiniteSet(((({"length"} \cup {"chunked"}) \cup {"close"})
                         \cup {"keep"}) \cup {"other"})
      BY <3>5, FS_AddElement
    <3>7. IsFiniteSet((((({"length"} \cup {"chunked"}) \cup {"close"})
                          \cup {"keep"}) \cup {"other"}) \cup {"bare"})
      BY <3>6, FS_AddElement
    <3>8. DOMAIN Headers = (((({"length"} \cup {"chunked"}) \cup {"close"})
                              \cup {"keep"}) \cup {"other"}) \cup {"bare"}
      BY <3>1
    <3> QED BY <3>7, <3>8
  <2> QED BY <1>2, <2>1, FS_Subset, FS_CardinalityType
<1>4. PICK n \in Nat : names \in [1 .. n -> ns]
  BY <1>3 DEF SetToSeqs
<1>5. m.names = ToSet(names) /\ m.damaged = 0 /\ m.longer = FALSE
      /\ m.bytes = B(line, names)
  <2> HIDE DEF B
  <2> QED BY <1>1
<1>6. m = [bytes |-> m.bytes, names |-> m.names, damaged |-> m.damaged,
            longer |-> m.longer]
  <2>1. ASSUME NEW b, NEW c, m = [bytes |-> b, names |-> c, damaged |-> 0,
           longer |-> FALSE]
        PROVE  m = [bytes |-> m.bytes, names |-> m.names, damaged |-> m.damaged,
            longer |-> m.longer]
    BY <2>1
  <2> HIDE DEF B
  <2> QED BY <1>1, <2>1
<1>7. Composed(m, line, n, names, ns)
  BY <1>2, <1>4, <1>5 DEF Composed
<1> QED BY <1>6, <1>7

LEMMA SoundMessages ==
  ASSUME NEW lines, lines \subseteq Bytes, NEW max
  PROVE  Sound(lines, max) \subseteq Message
<1> SUFFICES ASSUME NEW m \in Sound(lines, max) PROVE m \in Message
  OBVIOUS
<1>1. PICK line, n, names, ns : line \in lines /\ Composed(m, line, n, names, ns)
  BY SoundComposed
<1>2. /\ n \in Nat /\ names \in [1 .. n -> ns] /\ ns \subseteq DOMAIN Headers
      /\ m.names = ToSet(names) /\ m.damaged = 0 /\ m.longer = FALSE
  BY <1>1 DEF Composed
<1>3. PICK ss : ss = [i \in DOMAIN names |-> Headers[names[i]]]
  OBVIOUS
<1>4. /\ DOMAIN ss = 1 .. n /\ \A i \in 1 .. n : ss[i] \in Bytes
  BY <1>2, <1>3, HeaderBytes
<1>5. ss \in Seq(Bytes) /\ Len(ss) = n
  BY <1>2, <1>3, <1>4
<1>6. FlattenSeq(ss) \in Bytes
  BY <1>4, <1>5, FlattenBytes
<1>7. m.bytes \in Bytes
  <2>1. m.bytes = line \o FlattenSeq(ss) \o Sep(CRLF)
    BY <1>1, <1>3 DEF Composed
  <2> QED BY <1>1, <1>6, <2>1, Joined, HeaderBytes
<1>8. m.names \subseteq DOMAIN Headers
  BY <1>2 DEF ToSet
<1>9. m = [bytes |-> m.bytes, names |-> m.names, damaged |-> m.damaged,
            longer |-> m.longer]
  BY SoundComposed
<1>10. m.longer \in BOOLEAN /\ m.damaged \in Nat
  <2>1. FALSE \in BOOLEAN /\ 0 \in Nat
    OBVIOUS
  <2> QED BY <1>2, <2>1, Zenon
<1> QED BY <1>7, <1>8, <1>9, <1>10 DEF Message, Bytes


LEMMA DamagedMessages ==
  ASSUME NEW m \in Message PROVE Damaged(m) \subseteq Message
<1> SUFFICES ASSUME NEW d \in Damaged(m) PROVE d \in Message
  OBVIOUS
<1>1. PICK i \in 2 .. Len(m.bytes) :
        d = [m EXCEPT !.bytes[i][2] = "ctl", !.damaged = i]
  BY DEF Damaged
<1>2. PICK b : b = [m.bytes EXCEPT ![i][2] = "ctl"]
  OBVIOUS
<1>3. m.bytes \in Seq(Tag \X Token) /\ m.names \in SUBSET DOMAIN Headers
  BY DEF Message
<1>4. b \in Seq(Tag \X Token)
  <2> PICK S : S = Tag
    OBVIOUS
  <2> PICK T : T = Token
    OBVIOUS
  <2>1. m.bytes \in Seq(S \X T) /\ "ctl" \in T
    BY <1>3, Spelled
  <2>2. \A x \in S \X T : [x EXCEPT ![2] = "ctl"] \in S \X T
    BY <2>1
  <2>3. PICK x : x = [m.bytes[i] EXCEPT ![2] = "ctl"]
    OBVIOUS
  <2>4. m.bytes[i] \in S \X T /\ i \in 1 .. Len(m.bytes)
    BY <2>1
  <2>5. x \in S \X T
    BY <2>2, <2>3, <2>4
  <2>6. b = [m.bytes EXCEPT ![i] = x]
    BY <1>2, <2>3
  <2>7. b \in Seq(S \X T)
    <3>1. \A s \in Seq(S \X T) : \A j \in 1 .. Len(s) :
            [s EXCEPT ![j] = x] \in Seq(S \X T)
      BY <2>5
    <3> QED BY <2>1, <2>4, <2>6, <3>1
  <2> QED BY <2>7
<1>5. d = [bytes |-> b, names |-> m.names, damaged |-> i,
           longer |-> m.longer]
  BY <1>1, <1>2 DEF Message
<1>6. i \in Nat
  BY <1>3
<1> QED BY <1>3, <1>4, <1>5, <1>6 DEF Message

LEMMA LongerMessages ==
  ASSUME NEW m \in Message, NEW d \in Longer(m)
  PROVE  d \in Message /\ d.longer /\ d.damaged = m.damaged
<1>1. PICK i \in DOMAIN m.bytes :
        d = [m EXCEPT !.bytes = InsertAt(m.bytes, i, m.bytes[i]), !.longer = TRUE]
  BY DEF Longer
<1>2. PICK b : b = InsertAt(m.bytes, i, m.bytes[i])
  OBVIOUS
<1>3. m.bytes \in Seq(Tag \X Token) /\ m.names \in SUBSET DOMAIN Headers
      /\ m.damaged \in Nat
  BY DEF Message
<1>4. b \in Seq(Tag \X Token)
  <2> PICK S : S = Tag \X Token
    OBVIOUS
  <2>1. m.bytes \in Seq(S) /\ i \in 1 .. Len(m.bytes) /\ m.bytes[i] \in S
    BY <1>3
  <2>2. /\ SubSeq(m.bytes, 1, i - 1) \in Seq(S)
        /\ SubSeq(m.bytes, i, Len(m.bytes)) \in Seq(S)
        /\ <<m.bytes[i]>> \in Seq(S)
    BY <2>1
  <2>3. \A x, y, z \in Seq(S) : (x \o y) \o z \in Seq(S)
    OBVIOUS
  <2>4. b = SubSeq(m.bytes, 1, i - 1) \o <<m.bytes[i]>>
              \o SubSeq(m.bytes, i, Len(m.bytes))
    BY <1>2 DEF InsertAt
  <2> QED BY <2>2, <2>3, <2>4
<1>5. d = [bytes |-> b, names |-> m.names, damaged |-> m.damaged,
           longer |-> TRUE]
  BY <1>1, <1>2 DEF Message
<1> QED BY <1>3, <1>4, <1>5 DEF Message

LEMMA Least ==
  ASSUME NEW S, S \subseteq Nat, S # {} PROVE \E n \in S : \A m \in S : n <= m
<1>1. PICK R : R = OpToRel(<, Nat)
  OBVIOUS
<1>2. IsWellFoundedOn(R, Nat)
  BY <1>1, NatLessThanWellFounded
<1>3. PICK n \in S : \A y \in S : <<y, n>> \notin R
  BY <1>2, WFMin
<1>4. \A y \in S : ~(y < n)
  BY <1>1, <1>3 DEF OpToRel
<1> QED BY <1>4

LEMMA TalkMessages ==
  ASSUME NEW lines, lines \subseteq Bytes, lines # {}, NEW h \in Talks(lines)
  PROVE  h \in Seq(Message) /\ Len(h) \in 1 .. 2
<1>1. PICK short : short = {CHOOSE line \in lines :
                             \A l \in lines : Len(line) <= Len(l)}
  OBVIOUS
<1>2. short \subseteq lines
  <2>1. {Len(l) : l \in lines} \subseteq Nat
    <3> PICK S : S = Tag \X Token
      OBVIOUS
    <3>1. \A l \in Seq(S) : Len(l) \in Nat
      OBVIOUS
    <3> QED BY <3>1 DEF Bytes
  <2>2. \E line \in lines : \A l \in lines : Len(line) <= Len(l)
    <3>1. PICK S : S = {Len(l) : l \in lines}
      OBVIOUS
    <3>2. PICK n \in S : \A k \in S : n <= k
      BY <2>1, <3>1, Least
    <3> QED BY <3>1, <3>2
  <2> QED BY <1>1, <2>2
<1> DEFINE first(ls) == {m \in Sound(ls, 1) :
                           m.names \in {{"length"}, {"keep"}}}
<1> DEFINE X == {<<m, n>> : m \in first(lines), n \in Sound(short, 1)}
           Y == {<<m, n>> : m \in first(short),
                   n \in Sound(lines, 1) \cup Sound(short, MaxHeaders)}
           Z == {<<d>> : d \in UNION {Damaged(m) \cup Longer(m) : m \in first(lines)}}
<1>3. Talks(lines) = X \cup Y \cup Z
  BY <1>1 DEF Talks
<1>4. Sound(lines, 1) \subseteq Message /\ Sound(short, 1) \subseteq Message
      /\ Sound(short, MaxHeaders) \subseteq Message
  BY <1>2, SoundMessages
<1>5. \/ \E m, n \in Message : h = <<m, n>>
      \/ \E d \in Message : h = <<d>>
  <2>1. first(lines) \subseteq Message /\ first(short) \subseteq Message
    BY <1>4
  <2>2. ASSUME h \in X PROVE \E m, n \in Message : h = <<m, n>>
    <3> HIDE DEF first
    <3> QED BY <1>4, <2>1, <2>2
  <2>3. ASSUME h \in Y PROVE \E m, n \in Message : h = <<m, n>>
    <3> HIDE DEF first
    <3> QED BY <1>4, <2>1, <2>3
  <2>4. ASSUME h \in Z PROVE \E d \in Message : h = <<d>>
    <3> HIDE DEF first
    <3>1. PICK m \in first(lines) : \E d \in Damaged(m) \cup Longer(m) : h = <<d>>
      BY <2>4
    <3>2. m \in Message
      BY <2>1
    <3> QED BY <3>1, <3>2, DamagedMessages, LongerMessages
  <2> HIDE DEF X, Y, Z
  <2> QED BY <1>3, <2>2, <2>3, <2>4
<1> PICK S : S = Message
  OBVIOUS
<1>6. (\E m, n \in S : h = <<m, n>>) \/ (\E d \in S : h = <<d>>)
  BY <1>5
<1>7. h \in Seq(S) /\ Len(h) \in 1 .. 2
  <2>1. CASE \E m, n \in S : h = <<m, n>>
    BY <2>1, Tuples
  <2>2. CASE \E d \in S : h = <<d>>
    BY <2>2, Tuples
  <2> QED BY <1>6, <2>1, <2>2
<1> QED BY <1>7

LEMMA TypeInit == Init => TypeInv
<1> SUFFICES ASSUME Init PROVE TypeInv
  OBVIOUS
<1>1. heads \in Seq(Message) /\ Len(heads) \in 1 .. 2
  <2>1. RequestLines # {}
    BY RequestBytes
  <2>2. StatusLines # {}
    <3>1. <<"GE">> \in {<<"GE">>, <<"GE", "sp">>}
      OBVIOUS
    <3> QED BY <3>1, Zenon DEF StatusLines
  <2> QED BY <2>1, <2>2, RequestBytes, StatusBytes, TalkMessages DEF Init
<1>2. /\ role \in {"request", "response"} /\ last = 0 /\ pos = 1
      /\ rc = "AGAIN" /\ hd = create(Zeroed) /\ phase = "reading" /\ cuts = 0
  BY DEF Init
<1>3. \A f \in Field : hd.str[f].data = 0 /\ hd.str[f].len = 0
  BY <1>2, Anew DEF NoString
<1>4. hd \in HeadState /\ hd.handler = "line"
  BY <1>2, Anew
<1>5. Reach(hd.str, pos - 1)
  BY <1>2, <1>3 DEF Reach
<1>6. "s_start" \in DOMAIN RequestLine /\ "start" \in DOMAIN ResponseLine
  BY DEF RequestLine, ResponseLine
<1>7. hd.state = IF role = "request" THEN "s_start" ELSE "start"
  BY <1>2, Anew
<1>8. hd.state \in CASE role = "request" /\ hd.handler = "line" ->
                          DOMAIN RequestLine
                      [] role = "response" /\ hd.handler = "line" ->
                          DOMAIN ResponseLine
                      [] OTHER -> DOMAIN HeaderLine
  BY <1>2, <1>4, <1>6, <1>7
<1>9. /\ last \in 0 .. BufSize /\ pos \in 1 .. (BufSize + 2) /\ pos <= last + 1
      /\ pos <= last + 2 /\ cuts \in 0 .. MaxCuts
  BY <1>2, Limits
<1>10. \A f \in Field : hd.str[f].data \in 0 .. BufSize
                        /\ hd.str[f].len \in 0 .. BufSize
  BY <1>3, Limits
<1>11. DOMAIN hd.str = Field /\ hd.keepalive \in BOOLEAN
       /\ hd.body_type \in {"NULL", "CONTENT", "CHUNK"}
  BY <1>4 DEF HeadState, Strs
<1>12. /\ hd.str["method"].len = 0 /\ hd.str["http_code"].len = 0
       /\ hd.str["http_version"].len = 0 /\ hd.str["uri"].len = 0
  BY <1>3 DEF Field
<1>13. TypeOK
  BY <1>2, <1>4, <1>8, <1>9, <1>10, <1>11, <1>12, Limits DEF TypeOK
<1> QED BY <1>1, <1>2, <1>4, <1>5, <1>9, <1>13 DEF TypeInv

(* TypeInv is an inductive invariant.                                      *)
LEMMA TypedInv == Spec => []TypeInv
<1> QED BY TypeInit, TypeNext, PTL DEF Spec

(* The parsers keep their variables in their types: the buffer is never    *)
(* overrun, no field reaches beyond it, and a state is one of the table    *)
(* that the handler looks it up in, whatever is received.                  *)
THEOREM Typed == Spec => []TypeOK
<1>1. TypeInv => TypeOK
  BY DEF TypeInv
<1> QED BY <1>1, TypedInv, PTL

(* Where damage is done to a head, and the states that refuse it.          *)
Dam == {"method", "port", "http_version", "http_code", "name"}
Refusing == {"s_method", "s_colon", "s_port", "s_after_uri", "s_version",
             "http_slash", "version", "code_start", "code", "s_name"}

(* In state s the byte b, and it alone, leads by t.                        *)
Picks(table, s, b, t) ==
  t \in table[s] /\ b \in t.on /\ \A u \in table[s] : b \in u.on => u = t

(* It leads to another state, from a byte of field g to one of field h.    *)
Edge(table, s, b, to, g, h) ==
  \E t : /\ Picks(table, s, b, t) /\ t.to = to
         /\ t.begins = IF h = g THEN {} ELSE {h} \cap Field
         /\ t.ends = IF h = g THEN {} ELSE {g} \cap Field
         /\ h \in Dam /\ (h = "method" => g = "method") => s \in Refusing

(* What is not part of a field.                                            *)
Blank == ""
LEMMA Blanks == Blank \notin Field /\ Blank \notin Dam /\ Blank # "name"
BY Zenon DEF Blank, Field, Dam

Made(t, on, to, e, b) ==
  t.on = on /\ t.to = to /\ t.ends = e /\ t.begins = b
LEMMA Makes ==
  ASSUME NEW on, NEW to, NEW e, NEW b PROVE Made(Trans(on, to, e, b), on, to, e, b)
BY DEF Made, Trans

(* The edges along which request lines are read.                           *)
LEMMA RequestEdges ==
  /\ Edge(RequestLine, "s_start", "cr", "s_start", Blank, Blank)
  /\ Edge(RequestLine, "s_start", "lf", "s_start", Blank, Blank)
  /\ Edge(RequestLine, "s_start", "GE", "s_method", Blank, "method")
  /\ Edge(RequestLine, "s_start", "CON", "s_method", Blank, "method")
  /\ Edge(RequestLine, "s_method", "T", "s_method", "method", "method")
  /\ Edge(RequestLine, "s_method", "NECT", "s_method", "method", "method")
  /\ Edge(RequestLine, "s_method", "sp", "s_after_method", "method", Blank)
  /\ Edge(RequestLine, "s_after_method", "a", "s_schema", Blank, "schema")
  /\ Edge(RequestLine, "s_after_method", "/", "s_uri", Blank, "uri")
  /\ Edge(RequestLine, "s_after_connect", "a", "s_host", Blank, "host")
  /\ Edge(RequestLine, "s_schema", "b", "s_schema", "schema", "schema")
  /\ Edge(RequestLine, "s_schema", ":", "s_schema_slash", "schema", Blank)
  /\ Edge(RequestLine, "s_schema_slash", "/", "s_schema_slash_slash", Blank, Blank)
  /\ Edge(RequestLine, "s_schema_slash_slash", "/", "s_host_start", Blank, Blank)
  /\ Edge(RequestLine, "s_host_start", "b", "s_host", Blank, "host")
  /\ Edge(RequestLine, "s_host", ".", "s_host", "host", "host")
  /\ Edge(RequestLine, "s_host", "-", "s_host", "host", "host")
  /\ Edge(RequestLine, "s_host", "a", "s_host", "host", "host")
  /\ Edge(RequestLine, "s_host", "1", "s_host", "host", "host")
  /\ Edge(RequestLine, "s_host", ":", "s_colon", "host", Blank)
  /\ Edge(RequestLine, "s_host", "/", "s_uri", "host", "uri")
  /\ Edge(RequestLine, "s_colon", "2", "s_port", Blank, "port")
  /\ Edge(RequestLine, "s_port", "1", "s_port", "port", "port")
  /\ Edge(RequestLine, "s_port", "sp", "s_after_uri", "port", Blank)
  /\ Edge(RequestLine, "s_port", "/", "s_uri", "port", "uri")
  /\ Edge(RequestLine, "s_uri", "a", "s_uri", "uri", "uri")
  /\ Edge(RequestLine, "s_uri", "sp", "s_after_uri", "uri", Blank)
  /\ Edge(RequestLine, "s_after_uri", "H", "s_version", Blank, "http_version")
  /\ Edge(RequestLine, "s_version", "/", "s_version", "http_version", "http_version")
  /\ Edge(RequestLine, "s_version", "1", "s_version", "http_version", "http_version")
  /\ Edge(RequestLine, "s_version", "cr", "s_end", "http_version", Blank)
  /\ Edge(RequestLine, "s_end", "lf", "DONE", Blank, Blank)
<1>1. /\ Edge(RequestLine, "s_start", "cr", "s_start", Blank, Blank)
      /\ Edge(RequestLine, "s_start", "lf", "s_start", Blank, Blank)
      /\ Edge(RequestLine, "s_start", "GE", "s_method", Blank, "method")
      /\ Edge(RequestLine, "s_start", "CON", "s_method", Blank, "method")
  <2>1. PICK t, u :
          /\ RequestLine["s_start"] = {t, u}
          /\ Made(t, Upper, "s_method", {}, {"method"})
          /\ Made(u, Token \ Upper, "s_start", {}, {})
    BY RequestEntries, Makes
  <2>2. Edge(RequestLine, "s_start", "cr", "s_start", Blank, Blank)
    BY <2>1, Blanks DEF Edge, Picks, Made, Dam, Refusing, Letter, Upper, Lower,
                  Digit, Field, Token, Printed
  <2>3. Edge(RequestLine, "s_start", "lf", "s_start", Blank, Blank)
    BY <2>1, Blanks DEF Edge, Picks, Made, Dam, Refusing, Letter, Upper, Lower,
                  Digit, Field, Token, Printed
  <2>4. Edge(RequestLine, "s_start", "GE", "s_method", Blank, "method")
    BY <2>1, Blanks DEF Edge, Picks, Made, Dam, Refusing, Letter, Upper, Lower,
                  Digit, Field, Token, Printed
  <2>5. Edge(RequestLine, "s_start", "CON", "s_method", Blank, "method")
    BY <2>1, Blanks DEF Edge, Picks, Made, Dam, Refusing, Letter, Upper, Lower,
                  Digit, Field, Token, Printed
  <2> QED BY <2>2, <2>3, <2>4, <2>5
<1>2. /\ Edge(RequestLine, "s_method", "T", "s_method", "method", "method")
      /\ Edge(RequestLine, "s_method", "NECT", "s_method", "method", "method")
      /\ Edge(RequestLine, "s_method", "sp", "s_after_method", "method", Blank)
  <2>1. PICK t, u :
          /\ RequestLine["s_method"] = {t, u}
          /\ Made(t, Upper, "s_method", {}, {})
          /\ Made(u, {"sp"}, "s_after_method", {"method"}, {})
    BY RequestEntries, Makes
  <2>2. Edge(RequestLine, "s_method", "T", "s_method", "method", "method")
    BY <2>1, Blanks DEF Edge, Picks, Made, Dam, Refusing, Letter, Upper, Lower,
                  Digit, Field, Token, Printed
  <2>3. Edge(RequestLine, "s_method", "NECT", "s_method", "method", "method")
    BY <2>1, Blanks DEF Edge, Picks, Made, Dam, Refusing, Letter, Upper, Lower,
                  Digit, Field, Token, Printed
  <2>4. Edge(RequestLine, "s_method", "sp", "s_after_method", "method", Blank)
    BY <2>1, Blanks DEF Edge, Picks, Made, Dam, Refusing, Letter, Upper, Lower,
                  Digit, Field, Token, Printed
  <2> QED BY <2>2, <2>3, <2>4
<1>3. /\ Edge(RequestLine, "s_after_method", "a", "s_schema", Blank, "schema")
      /\ Edge(RequestLine, "s_after_method", "/", "s_uri", Blank, "uri")
  <2>1. PICK t, u, v :
          /\ RequestLine["s_after_method"] = {t, u, v}
          /\ Made(t, {"sp"}, "s_after_method", {}, {})
          /\ Made(u, Lower, "s_schema", {}, {"schema"})
          /\ Made(v, {"/"}, "s_uri", {}, {"uri"})
    BY RequestEntries, Makes
  <2>2. Edge(RequestLine, "s_after_method", "a", "s_schema", Blank, "schema")
    BY <2>1, Blanks DEF Edge, Picks, Made, Dam, Refusing, Letter, Upper, Lower,
                  Digit, Field, Token, Printed
  <2>3. Edge(RequestLine, "s_after_method", "/", "s_uri", Blank, "uri")
    BY <2>1, Blanks DEF Edge, Picks, Made, Dam, Refusing, Letter, Upper, Lower,
                  Digit, Field, Token, Printed
  <2> QED BY <2>2, <2>3
<1>4. /\ Edge(RequestLine, "s_after_connect", "a", "s_host", Blank, "host")
  <2>1. PICK t, u :
          /\ RequestLine["s_after_connect"] = {t, u}
          /\ Made(t, {"sp"}, "s_after_connect", {}, {})
          /\ Made(u, Lower \cup Digit, "s_host", {}, {"host"})
    BY RequestEntries, Makes
  <2>2. Edge(RequestLine, "s_after_connect", "a", "s_host", Blank, "host")
    BY <2>1, Blanks DEF Edge, Picks, Made, Dam, Refusing, Letter, Upper, Lower,
                  Digit, Field, Token, Printed
  <2> QED BY <2>2
<1>5. /\ Edge(RequestLine, "s_schema", "b", "s_schema", "schema", "schema")
      /\ Edge(RequestLine, "s_schema", ":", "s_schema_slash", "schema", Blank)
  <2>1. PICK t, u :
          /\ RequestLine["s_schema"] = {t, u}
          /\ Made(t, Lower, "s_schema", {}, {})
          /\ Made(u, {":"}, "s_schema_slash", {"schema"}, {})
    BY RequestEntries, Makes
  <2>2. Edge(RequestLine, "s_schema", "b", "s_schema", "schema", "schema")
    BY <2>1, Blanks DEF Edge, Picks, Made, Dam, Refusing, Letter, Upper, Lower,
                  Digit, Field, Token, Printed
  <2>3. Edge(RequestLine, "s_schema", ":", "s_schema_slash", "schema", Blank)
    BY <2>1, Blanks DEF Edge, Picks, Made, Dam, Refusing, Letter, Upper, Lower,
                  Digit, Field, Token, Printed
  <2> QED BY <2>2, <2>3
<1>6. /\ Edge(RequestLine, "s_schema_slash", "/", "s_schema_slash_slash", Blank, Blank)
  <2>1. PICK t, u :
          /\ RequestLine["s_schema_slash"] = {t, u}
          /\ Made(t, {"/"}, "s_schema_slash_slash", {}, {})
          /\ Made(u, Token \ {"/"}, "s_schema_slash", {}, {})
    BY RequestEntries, Makes
  <2>2. Edge(RequestLine, "s_schema_slash", "/", "s_schema_slash_slash", Blank, Blank)
    BY <2>1, Blanks DEF Edge, Picks, Made, Dam, Refusing, Letter, Upper, Lower,
                  Digit, Field, Token, Printed
  <2> QED BY <2>2
<1>7. /\ Edge(RequestLine, "s_schema_slash_slash", "/", "s_host_start", Blank, Blank)
  <2>1. PICK t, u :
          /\ RequestLine["s_schema_slash_slash"] = {t, u}
          /\ Made(t, {"/"}, "s_host_start", {}, {})
          /\ Made(u, Token \ {"/"}, "s_schema_slash_slash", {}, {})
    BY RequestEntries, Makes
  <2>2. Edge(RequestLine, "s_schema_slash_slash", "/", "s_host_start", Blank, Blank)
    BY <2>1, Blanks DEF Edge, Picks, Made, Dam, Refusing, Letter, Upper, Lower,
                  Digit, Field, Token, Printed
  <2> QED BY <2>2
<1>8. /\ Edge(RequestLine, "s_host_start", "b", "s_host", Blank, "host")
  <2>1. PICK t :
          /\ RequestLine["s_host_start"] = {t}
          /\ Made(t, Token, "s_host", {}, {"host"})
    BY RequestEntries, Makes
  <2>2. Edge(RequestLine, "s_host_start", "b", "s_host", Blank, "host")
    BY <2>1, Blanks DEF Edge, Picks, Made, Dam, Refusing, Letter, Upper, Lower,
                  Digit, Field, Token, Printed
  <2> QED BY <2>2
<1>9. /\ Edge(RequestLine, "s_host", ".", "s_host", "host", "host")
      /\ Edge(RequestLine, "s_host", "-", "s_host", "host", "host")
      /\ Edge(RequestLine, "s_host", "a", "s_host", "host", "host")
      /\ Edge(RequestLine, "s_host", "1", "s_host", "host", "host")
      /\ Edge(RequestLine, "s_host", ":", "s_colon", "host", Blank)
      /\ Edge(RequestLine, "s_host", "/", "s_uri", "host", "uri")
  <2>1. PICK t, u, v :
          /\ RequestLine["s_host"] = {t, u, v}
          /\ Made(t, Letter \cup Digit \cup {".", "-"}, "s_host", {}, {})
          /\ Made(u, {":"}, "s_colon", {"host"}, {})
          /\ Made(v, {"/"}, "s_uri", {"host"}, {"uri"})
    BY RequestEntries, Makes
  <2>2. Edge(RequestLine, "s_host", ".", "s_host", "host", "host")
    BY <2>1, Blanks DEF Edge, Picks, Made, Dam, Refusing, Letter, Upper, Lower,
                  Digit, Field, Token, Printed
  <2>3. Edge(RequestLine, "s_host", "-", "s_host", "host", "host")
    BY <2>1, Blanks DEF Edge, Picks, Made, Dam, Refusing, Letter, Upper, Lower,
                  Digit, Field, Token, Printed
  <2>4. Edge(RequestLine, "s_host", "a", "s_host", "host", "host")
    BY <2>1, Blanks DEF Edge, Picks, Made, Dam, Refusing, Letter, Upper, Lower,
                  Digit, Field, Token, Printed
  <2>5. Edge(RequestLine, "s_host", "1", "s_host", "host", "host")
    BY <2>1, Blanks DEF Edge, Picks, Made, Dam, Refusing, Letter, Upper, Lower,
                  Digit, Field, Token, Printed
  <2>6. Edge(RequestLine, "s_host", ":", "s_colon", "host", Blank)
    BY <2>1, Blanks DEF Edge, Picks, Made, Dam, Refusing, Letter, Upper, Lower,
                  Digit, Field, Token, Printed
  <2>7. Edge(RequestLine, "s_host", "/", "s_uri", "host", "uri")
    BY <2>1, Blanks DEF Edge, Picks, Made, Dam, Refusing, Letter, Upper, Lower,
                  Digit, Field, Token, Printed
  <2> QED BY <2>2, <2>3, <2>4, <2>5, <2>6, <2>7
<1>10. /\ Edge(RequestLine, "s_colon", "2", "s_port", Blank, "port")
  <2>1. PICK t :
          /\ RequestLine["s_colon"] = {t}
          /\ Made(t, Digit, "s_port", {}, {"port"})
    BY RequestEntries, Makes
  <2>2. Edge(RequestLine, "s_colon", "2", "s_port", Blank, "port")
    BY <2>1, Blanks DEF Edge, Picks, Made, Dam, Refusing, Letter, Upper, Lower,
                  Digit, Field, Token, Printed
  <2> QED BY <2>2
<1>11. /\ Edge(RequestLine, "s_port", "1", "s_port", "port", "port")
      /\ Edge(RequestLine, "s_port", "sp", "s_after_uri", "port", Blank)
      /\ Edge(RequestLine, "s_port", "/", "s_uri", "port", "uri")
  <2>1. PICK t, u, v :
          /\ RequestLine["s_port"] = {t, u, v}
          /\ Made(t, Digit, "s_port", {}, {})
          /\ Made(u, {"sp"}, "s_after_uri", {"port"}, {})
          /\ Made(v, {"/"}, "s_uri", {"port"}, {"uri"})
    BY RequestEntries, Makes
  <2>2. Edge(RequestLine, "s_port", "1", "s_port", "port", "port")
    BY <2>1, Blanks DEF Edge, Picks, Made, Dam, Refusing, Letter, Upper, Lower,
                  Digit, Field, Token, Printed
  <2>3. Edge(RequestLine, "s_port", "sp", "s_after_uri", "port", Blank)
    BY <2>1, Blanks DEF Edge, Picks, Made, Dam, Refusing, Letter, Upper, Lower,
                  Digit, Field, Token, Printed
  <2>4. Edge(RequestLine, "s_port", "/", "s_uri", "port", "uri")
    BY <2>1, Blanks DEF Edge, Picks, Made, Dam, Refusing, Letter, Upper, Lower,
                  Digit, Field, Token, Printed
  <2> QED BY <2>2, <2>3, <2>4
<1>12. /\ Edge(RequestLine, "s_uri", "a", "s_uri", "uri", "uri")
      /\ Edge(RequestLine, "s_uri", "sp", "s_after_uri", "uri", Blank)
  <2>1. PICK t, u :
          /\ RequestLine["s_uri"] = {t, u}
          /\ Made(t, Token \ {"sp"}, "s_uri", {}, {})
          /\ Made(u, {"sp"}, "s_after_uri", {"uri"}, {})
    BY RequestEntries, Makes
  <2>2. Edge(RequestLine, "s_uri", "a", "s_uri", "uri", "uri")
    BY <2>1, Blanks DEF Edge, Picks, Made, Dam, Refusing, Letter, Upper, Lower,
                  Digit, Field, Token, Printed
  <2>3. Edge(RequestLine, "s_uri", "sp", "s_after_uri", "uri", Blank)
    BY <2>1, Blanks DEF Edge, Picks, Made, Dam, Refusing, Letter, Upper, Lower,
                  Digit, Field, Token, Printed
  <2> QED BY <2>2, <2>3
<1>13. /\ Edge(RequestLine, "s_after_uri", "H", "s_version", Blank, "http_version")
  <2>1. PICK t, u :
          /\ RequestLine["s_after_uri"] = {t, u}
          /\ Made(t, {"sp"}, "s_after_uri", {}, {})
          /\ Made(u, Letter, "s_version", {}, {"http_version"})
    BY RequestEntries, Makes
  <2>2. Edge(RequestLine, "s_after_uri", "H", "s_version", Blank, "http_version")
    BY <2>1, Blanks DEF Edge, Picks, Made, Dam, Refusing, Letter, Upper, Lower,
                  Digit, Field, Token, Printed
  <2> QED BY <2>2
<1>14. /\ Edge(RequestLine, "s_version", "/", "s_version", "http_version", "http_version")
      /\ Edge(RequestLine, "s_version", "1", "s_version", "http_version", "http_version")
      /\ Edge(RequestLine, "s_version", "cr", "s_end", "http_version", Blank)
  <2>1. PICK t, u :
          /\ RequestLine["s_version"] = {t, u}
          /\ Made(t, Letter \cup Digit \cup {"/", "."}, "s_version", {}, {})
          /\ Made(u, {"cr"}, "s_end", {"http_version"}, {})
    BY RequestEntries, Makes
  <2>2. Edge(RequestLine, "s_version", "/", "s_version", "http_version", "http_version")
    BY <2>1, Blanks DEF Edge, Picks, Made, Dam, Refusing, Letter, Upper, Lower,
                  Digit, Field, Token, Printed
  <2>3. Edge(RequestLine, "s_version", "1", "s_version", "http_version", "http_version")
    BY <2>1, Blanks DEF Edge, Picks, Made, Dam, Refusing, Letter, Upper, Lower,
                  Digit, Field, Token, Printed
  <2>4. Edge(RequestLine, "s_version", "cr", "s_end", "http_version", Blank)
    BY <2>1, Blanks DEF Edge, Picks, Made, Dam, Refusing, Letter, Upper, Lower,
                  Digit, Field, Token, Printed
  <2> QED BY <2>2, <2>3, <2>4
<1>15. /\ Edge(RequestLine, "s_end", "lf", "DONE", Blank, Blank)
  <2>1. PICK t :
          /\ RequestLine["s_end"] = {t}
          /\ Made(t, {"lf"}, "DONE", {}, {})
    BY RequestEntries, Makes
  <2>2. Edge(RequestLine, "s_end", "lf", "DONE", Blank, Blank)
    BY <2>1, Blanks DEF Edge, Picks, Made, Dam, Refusing, Letter, Upper, Lower,
                  Digit, Field, Token, Printed
  <2> QED BY <2>2
<1> QED BY <1>1, <1>2, <1>3, <1>4, <1>5, <1>6, <1>7, <1>8, <1>9, <1>10, <1>11, <1>12, <1>13, <1>14, <1>15

(* The table of status lines, entry by entry.                              *)
LEMMA ResponseEntries ==
  /\ ResponseLine["start"] = {Trans({"H"}, "h", {}, {})}
  /\ ResponseLine["h"] = {Trans({"T"}, "ht", {}, {})}
  /\ ResponseLine["ht"] = {Trans({"T"}, "htt", {}, {})}
  /\ ResponseLine["htt"] = {Trans({"P"}, "http", {}, {})}
  /\ ResponseLine["http"] = {Trans({"/"}, "http_slash", {}, {})}
  /\ ResponseLine["http_slash"] = {Trans(Digit \cup {"."}, "version", {}, {"http_version"})}
  /\ ResponseLine["version"] = {Trans(Digit \cup {"."}, "version", {}, {}),
       Trans({"sp"}, "code_start", {"http_version"}, {})}
  /\ ResponseLine["code_start"] = {Trans(Digit, "code", {}, {"http_code"})}
  /\ ResponseLine["code"] = {Trans(Digit, "code", {}, {}),
       Trans({"sp"}, "before_string", {"http_code"}, {})}
  /\ ResponseLine["before_string"] = {Trans(Token, "string", {}, {"http_string"})}
  /\ ResponseLine["string"] = {Trans(Token \ {"cr"}, "string", {}, {}),
       Trans({"cr"}, "r", {"http_string"}, {})}
  /\ ResponseLine["r"] = {Trans({"lf"}, "DONE", {}, {})}
BY Kinds DEF ResponseLine

LEMMA StatusEdges ==
  /\ Edge(ResponseLine, "start", "H", "h", Blank, Blank)
  /\ Edge(ResponseLine, "h", "T", "ht", Blank, Blank)
  /\ Edge(ResponseLine, "ht", "T", "htt", Blank, Blank)
  /\ Edge(ResponseLine, "htt", "P", "http", Blank, Blank)
  /\ Edge(ResponseLine, "http", "/", "http_slash", Blank, Blank)
  /\ Edge(ResponseLine, "http_slash", "1", "version", Blank, "http_version")
  /\ Edge(ResponseLine, "version", ".", "version", "http_version", "http_version")
  /\ Edge(ResponseLine, "version", "sp", "code_start", "http_version", Blank)
  /\ Edge(ResponseLine, "code_start", "2", "code", Blank, "http_code")
  /\ Edge(ResponseLine, "code", "1", "code", "http_code", "http_code")
  /\ Edge(ResponseLine, "code", "sp", "before_string", "http_code", Blank)
  /\ Edge(ResponseLine, "before_string", "GE", "string", Blank, "http_string")
  /\ Edge(ResponseLine, "string", "sp", "string", "http_string", "http_string")
  /\ Edge(ResponseLine, "string", "cr", "r", "http_string", Blank)
  /\ Edge(ResponseLine, "r", "lf", "DONE", Blank, Blank)
<1>1. /\ Edge(ResponseLine, "start", "H", "h", Blank, Blank)
  <2>1. PICK t :
          /\ ResponseLine["start"] = {t}
          /\ Made(t, {"H"}, "h", {}, {})
    BY ResponseEntries, Makes
  <2>2. Edge(ResponseLine, "start", "H", "h", Blank, Blank)
    BY <2>1, Blanks DEF Edge, Picks, Made, Dam, Refusing, Letter, Upper, Lower,
                  Digit, Field, Token, Printed
  <2> QED BY <2>2
<1>2. /\ Edge(ResponseLine, "h", "T", "ht", Blank, Blank)
  <2>1. PICK t :
          /\ ResponseLine["h"] = {t}
          /\ Made(t, {"T"}, "ht", {}, {})
    BY ResponseEntries, Makes
  <2>2. Edge(ResponseLine, "h", "T", "ht", Blank, Blank)
    BY <2>1, Blanks DEF Edge, Picks, Made, Dam, Refusing, Letter, Upper, Lower,
                  Digit, Field, Token, Printed
  <2> QED BY <2>2
<1>3. /\ Edge(ResponseLine, "ht", "T", "htt", Blank, Blank)
  <2>1. PICK t :
          /\ ResponseLine["ht"] = {t}
          /\ Made(t, {"T"}, "htt", {}, {})
    BY ResponseEntries, Makes
  <2>2. Edge(ResponseLine, "ht", "T", "htt", Blank, Blank)
    BY <2>1, Blanks DEF Edge, Picks, Made, Dam, Refusing, Letter, Upper, Lower,
                  Digit, Field, Token, Printed
  <2> QED BY <2>2
<1>4. /\ Edge(ResponseLine, "htt", "P", "http", Blank, Blank)
  <2>1. PICK t :
          /\ ResponseLine["htt"] = {t}
          /\ Made(t, {"P"}, "http", {}, {})
    BY ResponseEntries, Makes
  <2>2. Edge(ResponseLine, "htt", "P", "http", Blank, Blank)
    BY <2>1, Blanks DEF Edge, Picks, Made, Dam, Refusing, Letter, Upper, Lower,
                  Digit, Field, Token, Printed
  <2> QED BY <2>2
<1>5. /\ Edge(ResponseLine, "http", "/", "http_slash", Blank, Blank)
  <2>1. PICK t :
          /\ ResponseLine["http"] = {t}
          /\ Made(t, {"/"}, "http_slash", {}, {})
    BY ResponseEntries, Makes
  <2>2. Edge(ResponseLine, "http", "/", "http_slash", Blank, Blank)
    BY <2>1, Blanks DEF Edge, Picks, Made, Dam, Refusing, Letter, Upper, Lower,
                  Digit, Field, Token, Printed
  <2> QED BY <2>2
<1>6. /\ Edge(ResponseLine, "http_slash", "1", "version", Blank, "http_version")
  <2>1. PICK t :
          /\ ResponseLine["http_slash"] = {t}
          /\ Made(t, Digit \cup {"."}, "version", {}, {"http_version"})
    BY ResponseEntries, Makes
  <2>2. Edge(ResponseLine, "http_slash", "1", "version", Blank, "http_version")
    BY <2>1, Blanks DEF Edge, Picks, Made, Dam, Refusing, Letter, Upper, Lower,
                  Digit, Field, Token, Printed
  <2> QED BY <2>2
<1>7. /\ Edge(ResponseLine, "version", ".", "version", "http_version", "http_version")
      /\ Edge(ResponseLine, "version", "sp", "code_start", "http_version", Blank)
  <2>1. PICK t, u :
          /\ ResponseLine["version"] = {t, u}
          /\ Made(t, Digit \cup {"."}, "version", {}, {})
          /\ Made(u, {"sp"}, "code_start", {"http_version"}, {})
    BY ResponseEntries, Makes
  <2>2. Edge(ResponseLine, "version", ".", "version", "http_version", "http_version")
    BY <2>1, Blanks DEF Edge, Picks, Made, Dam, Refusing, Letter, Upper, Lower,
                  Digit, Field, Token, Printed
  <2>3. Edge(ResponseLine, "version", "sp", "code_start", "http_version", Blank)
    BY <2>1, Blanks DEF Edge, Picks, Made, Dam, Refusing, Letter, Upper, Lower,
                  Digit, Field, Token, Printed
  <2> QED BY <2>2, <2>3
<1>8. /\ Edge(ResponseLine, "code_start", "2", "code", Blank, "http_code")
  <2>1. PICK t :
          /\ ResponseLine["code_start"] = {t}
          /\ Made(t, Digit, "code", {}, {"http_code"})
    BY ResponseEntries, Makes
  <2>2. Edge(ResponseLine, "code_start", "2", "code", Blank, "http_code")
    BY <2>1, Blanks DEF Edge, Picks, Made, Dam, Refusing, Letter, Upper, Lower,
                  Digit, Field, Token, Printed
  <2> QED BY <2>2
<1>9. /\ Edge(ResponseLine, "code", "1", "code", "http_code", "http_code")
      /\ Edge(ResponseLine, "code", "sp", "before_string", "http_code", Blank)
  <2>1. PICK t, u :
          /\ ResponseLine["code"] = {t, u}
          /\ Made(t, Digit, "code", {}, {})
          /\ Made(u, {"sp"}, "before_string", {"http_code"}, {})
    BY ResponseEntries, Makes
  <2>2. Edge(ResponseLine, "code", "1", "code", "http_code", "http_code")
    BY <2>1, Blanks DEF Edge, Picks, Made, Dam, Refusing, Letter, Upper, Lower,
                  Digit, Field, Token, Printed
  <2>3. Edge(ResponseLine, "code", "sp", "before_string", "http_code", Blank)
    BY <2>1, Blanks DEF Edge, Picks, Made, Dam, Refusing, Letter, Upper, Lower,
                  Digit, Field, Token, Printed
  <2> QED BY <2>2, <2>3
<1>10. /\ Edge(ResponseLine, "before_string", "GE", "string", Blank, "http_string")
  <2>1. PICK t :
          /\ ResponseLine["before_string"] = {t}
          /\ Made(t, Token, "string", {}, {"http_string"})
    BY ResponseEntries, Makes
  <2>2. Edge(ResponseLine, "before_string", "GE", "string", Blank, "http_string")
    BY <2>1, Blanks DEF Edge, Picks, Made, Dam, Refusing, Letter, Upper, Lower,
                  Digit, Field, Token, Printed
  <2> QED BY <2>2
<1>11. /\ Edge(ResponseLine, "string", "sp", "string", "http_string", "http_string")
      /\ Edge(ResponseLine, "string", "cr", "r", "http_string", Blank)
  <2>1. PICK t, u :
          /\ ResponseLine["string"] = {t, u}
          /\ Made(t, Token \ {"cr"}, "string", {}, {})
          /\ Made(u, {"cr"}, "r", {"http_string"}, {})
    BY ResponseEntries, Makes
  <2>2. Edge(ResponseLine, "string", "sp", "string", "http_string", "http_string")
    BY <2>1, Blanks DEF Edge, Picks, Made, Dam, Refusing, Letter, Upper, Lower,
                  Digit, Field, Token, Printed
  <2>3. Edge(ResponseLine, "string", "cr", "r", "http_string", Blank)
    BY <2>1, Blanks DEF Edge, Picks, Made, Dam, Refusing, Letter, Upper, Lower,
                  Digit, Field, Token, Printed
  <2> QED BY <2>2, <2>3
<1>12. /\ Edge(ResponseLine, "r", "lf", "DONE", Blank, Blank)
  <2>1. PICK t :
          /\ ResponseLine["r"] = {t}
          /\ Made(t, {"lf"}, "DONE", {}, {})
    BY ResponseEntries, Makes
  <2>2. Edge(ResponseLine, "r", "lf", "DONE", Blank, Blank)
    BY <2>1, Blanks DEF Edge, Picks, Made, Dam, Refusing, Letter, Upper, Lower,
                  Digit, Field, Token, Printed
  <2> QED BY <2>2
<1> QED BY <1>1, <1>2, <1>3, <1>4, <1>5, <1>6, <1>7, <1>8, <1>9, <1>10, <1>11, <1>12

(* Where the first i bytes of a head have a field.                         *)
Tagged(ref, i, f) == {j \in 1 .. i : ref[j][1] = f}
Found(ref, i, f) ==
  IF Tagged(ref, i, f) = {} THEN NoString
  ELSE [data |-> CHOOSE j \in Tagged(ref, i, f) :
                   \A l \in Tagged(ref, i, f) : j <= l,
        len |-> Cardinality(Tagged(ref, i, f))]

LEMMA FoundNone ==
  ASSUME NEW ref, NEW i \in Nat, NEW f, Found(ref, i, f) = NoString
  PROVE  Tagged(ref, i, f) = {}
<1> DEFINE S == Tagged(ref, i, f)
<1> SUFFICES ASSUME S # {} PROVE FALSE
  OBVIOUS
<1>1. S \subseteq Nat \ {0}
  BY DEF Tagged
<1>2. PICK n \in S : \A m \in S : n <= m
  <2> HIDE DEF S
  <2>1. S \subseteq Nat
    BY <1>1
  <2> QED BY <2>1, Least
<1>3. PICK d : d = CHOOSE j \in S : \A l \in S : j <= l
  OBVIOUS
<1>4. d \in S
  BY <1>2, <1>3
<1>5. Found(ref, i, f).data = d
  BY <1>3 DEF Found
<1>6. d # 0 /\ NoString.data = 0
  BY <1>1, <1>4 DEF NoString
<1> QED BY <1>5, <1>6

LEMMA TaggedNext ==
  ASSUME NEW ref, NEW i \in Nat, NEW f
  PROVE  Tagged(ref, i + 1, f) =
           IF ref[i + 1][1] = f THEN Tagged(ref, i, f) \cup {i + 1}
           ELSE Tagged(ref, i, f)
<1>1. 1 .. (i + 1) = (1 .. i) \cup {i + 1}
  OBVIOUS
<1> QED BY <1>1 DEF Tagged

LEMMA FoundSame ==
  ASSUME NEW ref, NEW i \in Nat, NEW f, ref[i + 1][1] # f
  PROVE  Found(ref, i + 1, f) = Found(ref, i, f)
<1>1. Tagged(ref, i + 1, f) = Tagged(ref, i, f)
  BY TaggedNext
<1> QED BY <1>1, Zenon DEF Found

LEMMA FoundFirst ==
  ASSUME NEW ref, NEW i \in Nat, NEW f, ref[i + 1][1] = f,
         Found(ref, i, f) = NoString
  PROVE  Found(ref, i + 1, f) = [data |-> i + 1, len |-> 1]
<1>1. Tagged(ref, i + 1, f) = {i + 1}
  BY TaggedNext, FoundNone
<1>2. Cardinality({i + 1}) = 1
  BY FS_Singleton
<1>3. (CHOOSE j \in {i + 1} : \A l \in {i + 1} : j <= l) = i + 1
  OBVIOUS
<1> QED BY <1>1, <1>2, <1>3 DEF Found

LEMMA FoundNext ==
  ASSUME NEW ref, NEW i \in Nat, NEW f, ref[i + 1][1] = f,
         NEW d \in Nat \ {0}, NEW n \in Nat \ {0}, d <= i,
         Found(ref, i, f) = [data |-> d, len |-> n]
  PROVE  Found(ref, i + 1, f) = [data |-> d, len |-> n + 1]
<1>1. PICK S : S = Tagged(ref, i, f)
  OBVIOUS
<1>2. PICK T : T = Tagged(ref, i + 1, f)
  OBVIOUS
<1>3. T = S \cup {i + 1}
  BY <1>1, <1>2, TaggedNext
<1>4. S # {}
  <2>1. Found(ref, i, f).data # 0
    OBVIOUS
  <2> QED BY <1>1, <2>1, Zenon DEF Found, NoString
<1>5. S \subseteq 1 .. i /\ i + 1 \notin S
  BY <1>1 DEF Tagged
<1>6. IsFiniteSet(S)
  <2>1. IsFiniteSet(1 .. i)
    BY FS_Interval
  <2> QED BY <1>5, <2>1, FS_Subset
<1>7. /\ d = (CHOOSE j \in S : \A l \in S : j <= l) /\ n = Cardinality(S)
  BY <1>1, <1>4 DEF Found
<1>8. d \in S /\ \A l \in S : d <= l
  <2>0. S \subseteq Nat
    BY <1>5
  <2>1. PICK m \in S : \A l \in S : m <= l
    BY <1>4, <2>0, Least
  <2> QED BY <1>7, <2>1
<1>9. Cardinality(T) = n + 1
  BY <1>3, <1>5, <1>6, <1>7, FS_AddElement
<1>10. (CHOOSE j \in T : \A l \in T : j <= l) = d
  <2>1. d \in T /\ \A l \in T : d <= l
    BY <1>3, <1>8
  <2>2. \A j \in T : (\A l \in T : j <= l) => j = d
    BY <1>3, <1>5, <2>1
  <2> QED BY <2>1, <2>2
<1> QED BY <1>2, <1>3, <1>9, <1>10 DEF Found

(* The last r of i bytes are the field f, and all of it that is found.     *)
Ran(ref, i, f, r) ==
  r \in 1 .. i /\ Found(ref, i, f) = [data |-> (i + 1) - r, len |-> r]
Bears(ref, j, f) == ref[j][1] = f

LEMMA FoundRun ==
  ASSUME NEW ref, NEW i \in Nat, NEW f, NEW r, Bears(ref, i + 1, f),
         Ran(ref, i, f, r)
  PROVE  \E d \in Nat \ {0} : /\ d = (i + 1) - r /\ (i + 1) - d = r
                              /\ Found(ref, i, f) = [data |-> d, len |-> r]
                              /\ Found(ref, i + 1, f) = [data |-> d, len |-> r + 1]
<1>1. PICK d : d = (i + 1) - r
  OBVIOUS
<1>2. d \in Nat \ {0} /\ d <= i /\ r \in Nat \ {0} /\ (i + 1) - d = r
  BY <1>1 DEF Ran
<1>3. Found(ref, i, f) = [data |-> d, len |-> r]
  BY <1>1 DEF Ran
<1>4. Found(ref, i + 1, f) = [data |-> d, len |-> r + 1]
  BY <1>2, <1>3, FoundNext DEF Bears
<1> QED BY <1>1, <1>2, <1>3, <1>4

-----------------------------------------------------------------------------
(* One byte along an edge of a table.                                      *)
LEMMA Moved ==
  ASSUME NEW table, NEW k, NEW b, NEW t, k.rc = "AGAIN",
         Picks(table, k.state, b, t), Admits(k, t), ~TooLong(k)
  PROVE  Byte(table, k, b) = Taken(table, k, b, t)
<1>1. Options(table, k, b) = {t}
  BY DEF Options, Picks
<1> QED BY <1>1, ByteTaken

(* What a parser has of the fields: of the one it is in not yet the length.*)
Open(ref, i, g) ==
  [f \in Field |-> IF f = g THEN [data |-> Found(ref, i, f).data, len |-> 0]
                   ELSE Found(ref, i, f)]

(* Before the byte j a parser wants more, and damage would be refused.     *)
Keen(E, n, ref, j) ==
  j - 1 <= n =>
    /\ E[j - 1].rc = "AGAIN"
    /\ j > 1 /\ ref[j][1] \in Dam
         /\ (ref[j][1] = "method" => ref[j - 1][1] = "method")
         => E[j - 1].state \in Refusing

(* What is found in i bytes: the last r of them are in field g; fields     *)
(* that are not of F are not.                                              *)
Scanned(ref, i, g, r, F) ==
  /\ i > 0 => Bears(ref, i, g)
  /\ IF g \in Field THEN Ran(ref, i, g, r) ELSE r = 0
  /\ \A f \in Field \ F : Found(ref, i, f) = NoString
  /\ Found(ref, i, "uri").len <= 2
Run(g, r, h) == IF h \notin Field THEN 0 ELSE IF h = g THEN r + 1 ELSE 1

LEMMA ScanNext ==
  ASSUME NEW ref, NEW i \in Nat, NEW g, NEW r, NEW F, NEW h,
         Scanned(ref, i, g, r, F), Bears(ref, i + 1, h),
         h \in Field /\ h # g => h \notin F,
         h = "uri" => Run(g, r, h) <= 2
  PROVE  Scanned(ref, i + 1, h, Run(g, r, h), F \cup {h})
<1>1. \A f \in Field : f # h => Found(ref, i + 1, f) = Found(ref, i, f)
  BY FoundSame DEF Bears
<1>2. CASE h \notin Field
  <2>1. Found(ref, i + 1, "uri") = Found(ref, i, "uri")
    BY <1>1, <1>2 DEF Field
  <2> QED BY <1>1, <1>2, <2>1 DEF Scanned, Run
<1>3. CASE h \in Field /\ h # g
  <2>1. Found(ref, i + 1, h) = [data |-> i + 1, len |-> 1]
    BY <1>3, FoundFirst DEF Scanned, Bears
  <2>2. ((i + 1) + 1) - 1 = i + 1 /\ 1 \in 1 .. (i + 1)
    OBVIOUS
  <2>3. Found(ref, i + 1, "uri").len <= 2
    <3>1. CASE h = "uri"
      BY <2>1, <3>1
    <3>2. CASE h # "uri"
      BY <1>1, <3>2 DEF Field, Scanned
    <3> QED BY <3>1, <3>2
  <2> QED BY <1>1, <1>3, <2>1, <2>2, <2>3 DEF Scanned, Run, Ran
<1>4. CASE h \in Field /\ h = g
  <2>1. Ran(ref, i, h, r)
    BY <1>4 DEF Scanned
  <2>2. PICK d \in Nat \ {0} :
          /\ d = (i + 1) - r /\ (i + 1) - d = r
          /\ Found(ref, i, h) = [data |-> d, len |-> r]
          /\ Found(ref, i + 1, h) = [data |-> d, len |-> r + 1]
    BY <2>1, FoundRun, SMT
  <2>5. Found(ref, i + 1, h) = [data |-> d, len |-> r + 1]
    BY <2>2
  <2>6. d = ((i + 1) + 1) - (r + 1) /\ r + 1 \in 1 .. (i + 1)
    BY <2>1, <2>2 DEF Ran
  <2>7. Found(ref, i + 1, h) = [data |-> ((i + 1) + 1) - (r + 1), len |-> r + 1]
    BY <2>5, <2>6
  <2>8. Run(g, r, h) = r + 1
    BY <1>4 DEF Run
  <2>9. Found(ref, i + 1, "uri").len <= 2
    <3>1. CASE h = "uri"
      BY <2>5, <2>8, <3>1
    <3>2. CASE h # "uri"
      BY <1>1, <3>2 DEF Field, Scanned
    <3> QED BY <3>1, <3>2
  <2>10. \A f \in Field \ (F \cup {h}) : Found(ref, i + 1, f) = NoString
    BY <1>1 DEF Scanned
  <2> QED BY <1>4, <2>6, <2>7, <2>8, <2>9, <2>10 DEF Scanned, Ran
<1> QED BY <1>2, <1>3, <1>4

LEMMA SameData ==
  ASSUME NEW ref, NEW i \in Nat, NEW h \in Field, NEW r, NEW F,
         Scanned(ref, i, h, r, F), Bears(ref, i + 1, h)
  PROVE  Found(ref, i + 1, h).data = Found(ref, i, h).data
<1>1. Ran(ref, i, h, r)
  BY DEF Scanned
<1>2. PICK d \in Nat \ {0} :
        /\ d = (i + 1) - r /\ (i + 1) - d = r
        /\ Found(ref, i, h) = [data |-> d, len |-> r]
        /\ Found(ref, i + 1, h) = [data |-> d, len |-> r + 1]
  BY <1>1, FoundRun, SMT
<1> QED BY <1>2

Holds(k, ref, i, g) == k.str = Open(ref, i, g) /\ k.p = i + 1
Passes(t, g, h) == /\ t.begins = IF h = g THEN {} ELSE {h} \cap Field
                   /\ t.ends = IF h = g THEN {} ELSE {g} \cap Field
New(g, h, F) == h \in Field /\ h # g => h \notin F
LEMMA OpenNext ==
  ASSUME NEW ref, NEW i \in Nat, NEW g, NEW r, NEW F, NEW h, NEW k, NEW t,
         Scanned(ref, i, g, r, F), Bears(ref, i + 1, h), New(g, h, F),
         Holds(k, ref, i, g), Passes(t, g, h)
  PROVE  Marks(k, t) = Open(ref, i + 1, h)
<1>0. k.str = Open(ref, i, g) /\ k.p = i + 1
  BY DEF Holds
<1>00. /\ t.begins = IF h = g THEN {} ELSE {h} \cap Field
       /\ t.ends = IF h = g THEN {} ELSE {g} \cap Field
       /\ h \in Field /\ h # g => h \notin F
  BY DEF Passes, New
<1> SUFFICES ASSUME NEW f \in Field
             PROVE  Marks(k, t)[f] = Open(ref, i + 1, h)[f]
  BY DEF Marks, Open
<1> USE <1>0, <1>00
<1>1. f # h => Found(ref, i + 1, f) = Found(ref, i, f)
  BY FoundSame DEF Bears
<1>2. CASE h = g
  <2>1. Marks(k, t)[f] = Open(ref, i, g)[f]
    BY <1>2 DEF Marks
  <2>2. CASE f # h
    BY <1>1, <1>2, <2>1, <2>2 DEF Open
  <2>3. CASE f = h
    <3>1. Found(ref, i + 1, h).data = Found(ref, i, h).data
      BY <1>2, <2>3, SameData, Zenon
    <3> QED BY <1>2, <2>1, <2>3, <3>1 DEF Open
  <2> QED BY <2>2, <2>3
<1>3. CASE h # g /\ f = h
  <2>1. Found(ref, i, f) = NoString /\ Found(ref, i + 1, f) = [data |-> i + 1, len |-> 1]
    BY <1>3, FoundFirst DEF Scanned, Bears
  <2>2. Marks(k, t)[f] = [k.str[f] EXCEPT !.data = i + 1]
    BY <1>3 DEF Marks
  <2>3. k.str[f] = [data |-> 0, len |-> 0]
    BY <1>3, <2>1 DEF Open, NoString
  <2>4. Open(ref, i + 1, h)[f] = [data |-> i + 1, len |-> 0]
    BY <1>3, <2>1 DEF Open
  <2> QED BY <2>2, <2>3, <2>4
<1>4. CASE h # g /\ f # h /\ f = g
  <2>1. r \in 1 .. i /\ Found(ref, i, f) = [data |-> (i + 1) - r, len |-> r]
    BY <1>4 DEF Scanned, Ran
  <2>2. PICK d : d = (i + 1) - r
    OBVIOUS
  <2>3. d \in Nat /\ (i + 1) - d = r
    BY <2>1, <2>2
  <2>4. Found(ref, i, f) = [data |-> d, len |-> r]
    BY <2>1, <2>2
  <2>5. k.str[f] = [data |-> d, len |-> 0]
    BY <1>4, <2>4 DEF Open
  <2>6. Length(k, f) = (i + 1) - d
    <3>1. k.str[f].data = d
      BY <2>5
    <3>2. Length(k, f) = k.p - k.str[f].data
      BY DEF Length
    <3> QED BY <3>1, <3>2, Zenon
  <2>7. Length(k, f) = r
    BY <2>3, <2>6
  <2>8. Marks(k, t)[f] = [k.str[f] EXCEPT !.len = Length(k, f)]
    BY <1>4 DEF Marks
  <2>9. Marks(k, t)[f] = [data |-> d, len |-> r]
    BY <2>5, <2>7, <2>8
  <2>10. Open(ref, i + 1, h)[f] = Found(ref, i, f)
    BY <1>1, <1>4 DEF Open
  <2> QED BY <2>4, <2>9, <2>10
<1>5. CASE h # g /\ f # h /\ f # g
  BY <1>1, <1>5 DEF Marks, Open
<1> QED BY <1>2, <1>3, <1>4, <1>5

(* After i bytes of the line ref (or those of it that are before n).       *)
At(E, n, ref, i, s, g, r, F) ==
  /\ i \in Nat
  /\ \A j \in 1 .. i : Keen(E, n, ref, j)
  /\ i <= n => E[i] = [state |-> s, str |-> Open(ref, i, g), p |-> i + 1,
                       rc |-> "AGAIN"]
  /\ Scanned(ref, i, g, r, F)

Reads(E, table, n, ref) ==
  \A j \in Nat \ {0} : j <= n => E[j] = Byte(table, E[j - 1], ref[j][2])

LEMMA KeenNext ==
  ASSUME NEW E, NEW n, NEW ref, NEW i \in Nat, NEW s, NEW h,
         E[i].rc = "AGAIN", E[i].state = s, Bears(ref, i + 1, h),
         i > 0 /\ h \in Dam /\ (h = "method" => Bears(ref, i, "method"))
           => s \in Refusing
  PROVE  Keen(E, n, ref, i + 1)
<1>1. (i + 1) - 1 = i
  OBVIOUS
<1> QED BY <1>1 DEF Keen, Bears

(* The next byte is b and of field h; the limits admit what it ends.       *)
ByteAt(ref, j, h, b) == ref[j] = <<h, b>>
Fits(s, g, r, h) ==
  /\ h = "uri" => Run(g, r, h) <= 2
  /\ s = "s_version" => g = "http_version" /\ r <= VersionMax
  /\ g = "method" /\ h # g => r \in 1 .. MethodMax
  /\ g = "http_code" /\ h # g => r = CodeLen
After(E, table, n, ref, i, h, b, to, q, F) ==
  /\ i \in Nat
  /\ \A j \in 1 .. (i + 1) : Keen(E, n, ref, j)
  /\ Scanned(ref, i + 1, h, q, F)
  /\ i + 1 <= n =>
       E[i + 1] = [state |-> IF b = "sp" /\ Connects(E[i])
                               THEN "s_after_connect" ELSE to,
                   str |-> Open(ref, i + 1, h), p |-> i + 2,
                   rc |-> IF to \in DOMAIN table THEN "AGAIN" ELSE to]

LEMMA LineByte ==
  ASSUME NEW table, NEW E, NEW n \in Nat, NEW ref, NEW i, NEW s, NEW g,
         NEW r, NEW F, NEW h, NEW b, NEW to,
         At(E, n, ref, i, s, g, r, F), Reads(E, table, n, ref),
         ByteAt(ref, i + 1, h, b), Edge(table, s, b, to, g, h),
         New(g, h, F), Fits(s, g, r, h)
  PROVE  After(E, table, n, ref, i, h, b, to, Run(g, r, h), F \cup {h})
<1>0. /\ ref[i + 1] = <<h, b>>
      /\ h = "uri" => Run(g, r, h) <= 2
      /\ s = "s_version" => g = "http_version" /\ r <= VersionMax
      /\ g = "method" /\ h # g => r \in 1 .. MethodMax
      /\ g = "http_code" /\ h # g => r = CodeLen
  BY DEF ByteAt, Fits
<1>1. i \in Nat /\ Scanned(ref, i, g, r, F) /\ \A j \in 1 .. i : Keen(E, n, ref, j)
  BY DEF At
<1>2. Bears(ref, i + 1, h) /\ ref[i + 1][2] = b
  BY <1>0 DEF Bears
<1>3. PICK t : /\ Picks(table, s, b, t) /\ t.to = to
               /\ t.begins = IF h = g THEN {} ELSE {h} \cap Field
               /\ t.ends = IF h = g THEN {} ELSE {g} \cap Field
               /\ h \in Dam /\ (h = "method" => g = "method") => s \in Refusing
  BY DEF Edge
<1>4. Scanned(ref, i + 1, h, Run(g, r, h), F \cup {h})
  BY <1>0, <1>1, <1>2, ScanNext DEF New
<1>5. Keen(E, n, ref, i + 1)
  <2> SUFFICES ASSUME i <= n PROVE Keen(E, n, ref, i + 1)
    <3>1. (i + 1) - 1 = i
      BY <1>1
    <3> QED BY <3>1 DEF Keen
  <2>1. E[i].rc = "AGAIN" /\ E[i].state = s
    BY DEF At
  <2>2. i > 0 /\ h = "method" /\ Bears(ref, i, "method") => g = "method"
    BY <1>1 DEF Scanned, Bears
  <2> QED BY <1>1, <1>2, <1>3, <2>1, <2>2, KeenNext, Zenon
<1>6. \A j \in 1 .. (i + 1) : Keen(E, n, ref, j)
  <2>1. 1 .. (i + 1) = (1 .. i) \cup {i + 1}
    BY <1>1
  <2> QED BY <1>1, <1>5, <2>1
<1>7. ASSUME i + 1 <= n
      PROVE  E[i + 1] = [state |-> IF b = "sp" /\ Connects(E[i])
                                     THEN "s_after_connect" ELSE to,
                         str |-> Open(ref, i + 1, h), p |-> i + 2,
                         rc |-> IF to \in DOMAIN table THEN "AGAIN" ELSE to]
  <2>1. PICK k : k = E[i]
    OBVIOUS
  <2>2. k = [state |-> s, str |-> Open(ref, i, g), p |-> i + 1, rc |-> "AGAIN"]
    BY <1>1, <1>7, <2>1 DEF At
  <2>3. k.state = s /\ k.str = Open(ref, i, g) /\ k.p = i + 1 /\ k.rc = "AGAIN"
    BY <2>2
  <2>4. E[i + 1] = Byte(table, k, b)
    BY <1>1, <1>2, <1>7, <2>1 DEF Reads
  <2>5. g \in Field => Length(k, g) = r
    <3> SUFFICES ASSUME g \in Field PROVE Length(k, g) = r
      OBVIOUS
    <3>1. r \in 1 .. i /\ Found(ref, i, g) = [data |-> (i + 1) - r, len |-> r]
      BY <1>1 DEF Scanned, Ran
    <3>2. k.str[g].data = (i + 1) - r
      BY <2>3, <3>1 DEF Open
    <3>3. Length(k, g) = k.p - k.str[g].data
      BY DEF Length
    <3>4. Length(k, g) = (i + 1) - ((i + 1) - r)
      BY <2>3, <3>2, <3>3, Zenon
    <3> QED BY <1>1, <3>1, <3>4
  <2>6. ~TooLong(k)
    <3> SUFFICES ASSUME s = "s_version" PROVE ~TooLong(k)
      BY <2>3 DEF TooLong
    <3>1. g = "http_version" /\ g \in Field /\ r <= VersionMax
      BY <1>0 DEF Field
    <3>2. k.p - k.str["http_version"].data = r
      BY <2>5, <3>1 DEF Length
    <3>3. r \in Nat
      BY <1>1, <3>1 DEF Scanned, Ran
    <3> QED BY <3>1, <3>2, <3>3, Limits DEF TooLong
  <2>7. Admits(k, t)
    <3>1. ASSUME "method" \in t.ends PROVE Length(k, "method") \in 1 .. MethodMax
      BY <1>0, <1>3, <2>5, <3>1
    <3>2. ASSUME "http_code" \in t.ends PROVE Length(k, "http_code") = CodeLen
      BY <1>0, <1>3, <2>5, <3>2
    <3> QED BY <3>1, <3>2 DEF Admits
  <2>8. E[i + 1] = Taken(table, k, b, t)
    BY <1>3, <2>3, <2>4, <2>6, <2>7, Moved
  <2>9. Marks(k, t) = Open(ref, i + 1, h)
    <3>1. Passes(t, g, h)
      BY <1>3 DEF Passes
    <3>2. Holds(k, ref, i, g)
      BY <2>3 DEF Holds
    <3> QED BY <1>1, <1>2, <3>1, <3>2, OpenNext, SMT
  <2>10. k.p + 1 = i + 2
    BY <1>1, <2>3
  <2> QED BY <1>3, <2>1, <2>8, <2>9, <2>10, Zenon DEF Taken
<1> QED BY <1>1, <1>4, <1>6, <1>7 DEF After

(* The same, by what becomes of the field: it goes on, another begins, or  *)
(* it ends.                                                                *)
Plain(s, b, g, r) ==
  /\ ~(s = "s_method" /\ b = "sp")
  /\ s = "s_version" => g = "http_version" /\ r <= 3

LEMMA PlainFits ==
  ASSUME NEW E, NEW n, NEW ref, NEW i, NEW s, NEW g, NEW r, NEW F, NEW b, NEW h,
         At(E, n, ref, i, s, g, r, F), Plain(s, b, g, r),
         h = "uri" => Run(g, r, h) <= 2,
         h = g \/ g # "method", h = g \/ g # "http_code" \/ r = 2
  PROVE  Fits(s, g, r, h)
<1>1. s = "s_version" => g = "http_version" /\ r <= VersionMax
  <2> SUFFICES ASSUME s = "s_version" PROVE g = "http_version" /\ r <= VersionMax
    OBVIOUS
  <2>1. g = "http_version" /\ r <= 3 /\ g \in Field
    BY DEF Plain, Field
  <2>2. r \in Nat
    BY <2>1 DEF At, Scanned, Ran
  <2> QED BY <2>1, <2>2, Limits, LimitsAssumption
<1> QED BY <1>1, LimitsAssumption DEF Fits

LEMMA AfterAt ==
  ASSUME NEW table, NEW E, NEW n \in Nat, NEW ref, NEW i, NEW s, NEW g,
         NEW r, NEW F, NEW h, NEW b, NEW to, NEW q, NEW G,
         At(E, n, ref, i, s, g, r, F), Plain(s, b, g, r), to \in DOMAIN table,
         After(E, table, n, ref, i, h, b, to, q, F \cup {h}),
         (F \cup {h}) \cap Field \subseteq G
  PROVE  At(E, n, ref, i + 1, to, h, q, G)
<1>1. i + 1 \in Nat /\ (i + 1) + 1 = i + 2 /\ (i + 1 <= n => i <= n)
  BY DEF After
<1>2. \A j \in 1 .. (i + 1) : Keen(E, n, ref, j)
  BY DEF After
<1>3. Scanned(ref, i + 1, h, q, G)
  BY DEF After, Scanned
<1>4. ASSUME i + 1 <= n
      PROVE  E[i + 1] = [state |-> to, str |-> Open(ref, i + 1, h),
                         p |-> (i + 1) + 1, rc |-> "AGAIN"]
  <2>1. E[i].state = s
    BY <1>1, <1>4 DEF At
  <2>2. ~(b = "sp" /\ Connects(E[i]))
    BY <2>1 DEF Connects, Plain
  <2> QED BY <1>1, <1>4, <2>2 DEF After
<1> QED BY <1>1, <1>2, <1>3, <1>4 DEF At

LEMMA GoesOn ==
  ASSUME NEW table, NEW E, NEW n \in Nat, NEW ref, NEW i, NEW s, NEW g,
         NEW r, NEW F, NEW b, NEW to,
         At(E, n, ref, i, s, g, r, F), Reads(E, table, n, ref),
         ByteAt(ref, i + 1, g, b), Edge(table, s, b, to, g, g),
         to \in DOMAIN table, Plain(s, b, g, r), g \in F, F \subseteq Field,
         g = "uri" => r = 1
  PROVE  At(E, n, ref, i + 1, to, g, r + 1, F)
<1>1. Run(g, r, g) = r + 1
  BY DEF Run
<1>2. Fits(s, g, r, g) /\ New(g, g, F)
  BY <1>1, PlainFits DEF New
<1>3. After(E, table, n, ref, i, g, b, to, Run(g, r, g), F \cup {g})
  BY <1>2, LineByte, Zenon
<1> QED BY <1>1, <1>3, AfterAt

LEMMA GoesBetween ==
  ASSUME NEW table, NEW E, NEW n \in Nat, NEW ref, NEW i, NEW s, NEW F, NEW b,
         NEW to,
         At(E, n, ref, i, s, Blank, 0, F), Reads(E, table, n, ref),
         ByteAt(ref, i + 1, Blank, b), Edge(table, s, b, to, Blank, Blank),
         to \in DOMAIN table, Plain(s, b, Blank, 0), F \subseteq Field
  PROVE  At(E, n, ref, i + 1, to, Blank, 0, F)
<1>1. Run(Blank, 0, Blank) = 0 /\ Blank \notin Field
  BY Blanks DEF Run
<1>2. Fits(s, Blank, 0, Blank) /\ New(Blank, Blank, F)
  BY <1>1, PlainFits DEF New
<1>3. After(E, table, n, ref, i, Blank, b, to, Run(Blank, 0, Blank), F \cup {Blank})
  BY <1>2, LineByte, Zenon
<1>4. (F \cup {Blank}) \cap Field \subseteq F
  BY <1>1
<1> QED BY <1>1, <1>3, <1>4, AfterAt

LEMMA Begin ==
  ASSUME NEW table, NEW E, NEW n \in Nat, NEW ref, NEW i, NEW s, NEW g,
         NEW r, NEW F, NEW h, NEW b, NEW to,
         At(E, n, ref, i, s, g, r, F), Reads(E, table, n, ref),
         ByteAt(ref, i + 1, h, b), Edge(table, s, b, to, g, h),
         to \in DOMAIN table, Plain(s, b, g, r), h \in Field \ F, h # g,
         g \notin {"method", "http_code"}
  PROVE  At(E, n, ref, i + 1, to, h, 1, F \cup {h})
<1>1. Run(g, r, h) = 1
  BY DEF Run
<1>2. Fits(s, g, r, h) /\ New(g, h, F)
  BY <1>1, PlainFits DEF New
<1>3. After(E, table, n, ref, i, h, b, to, Run(g, r, h), F \cup {h})
  BY <1>2, LineByte, Zenon
<1> QED BY <1>1, <1>3, AfterAt

LEMMA End ==
  ASSUME NEW table, NEW E, NEW n \in Nat, NEW ref, NEW i, NEW s, NEW g,
         NEW r, NEW F, NEW b, NEW to,
         At(E, n, ref, i, s, g, r, F), Reads(E, table, n, ref),
         ByteAt(ref, i + 1, Blank, b), Edge(table, s, b, to, g, Blank),
         to \in DOMAIN table, Plain(s, b, g, r), F \subseteq Field,
         g \in Field \ {"method"}, g # "http_code" \/ r = 2
  PROVE  At(E, n, ref, i + 1, to, Blank, 0, F)
<1>1. Run(g, r, Blank) = 0 /\ Blank \notin Field /\ Blank # g
  BY Blanks DEF Run
<1>2. Fits(s, g, r, Blank) /\ New(g, Blank, F)
  BY <1>1, PlainFits DEF New
<1>3. After(E, table, n, ref, i, Blank, b, to, Run(g, r, Blank), F \cup {Blank})
  BY <1>2, LineByte, Zenon
<1>4. (F \cup {Blank}) \cap Field \subseteq F
  BY <1>1
<1> QED BY <1>1, <1>3, <1>4, AfterAt

(* What the bytes from i on spell.                                         *)
Spells(ref, i, word) == \A j \in 1 .. Len(word) : ref[i + j] = word[j]

LEMMA SpellsJoined ==
  ASSUME NEW ref, NEW i \in Nat, NEW a \in Bytes, NEW b \in Bytes,
         Spells(ref, i, a \o b)
  PROVE  /\ Spells(ref, i, a) /\ Spells(ref, i + Len(a), b)
         /\ Len(a \o b) = Len(a) + Len(b) /\ Len(a) \in Nat /\ Len(b) \in Nat
         /\ a \o b \in Bytes
<1> PICK S : S = Tag \X Token
  OBVIOUS
<1>1. a \in Seq(S) /\ b \in Seq(S)
  BY DEF Bytes
<1>2. Len(a \o b) = Len(a) + Len(b) /\ Len(a) \in Nat /\ Len(b) \in Nat
      /\ (\A j \in 1 .. Len(a) : (a \o b)[j] = a[j])
      /\ (\A j \in 1 .. Len(b) : (a \o b)[Len(a) + j] = b[j])
  BY <1>1
<1>3. ASSUME NEW j \in 1 .. Len(a) PROVE ref[i + j] = a[j]
  BY <1>2 DEF Spells
<1>4. ASSUME NEW j \in 1 .. Len(b) PROVE ref[(i + Len(a)) + j] = b[j]
  <2>1. Len(a) + j \in 1 .. Len(a \o b) /\ i + (Len(a) + j) = (i + Len(a)) + j
    BY <1>2
  <2>2. ref[i + (Len(a) + j)] = (a \o b)[Len(a) + j]
    BY <2>1 DEF Spells
  <2> QED BY <1>2, <2>1, <2>2
<1> QED BY <1>2, <1>3, <1>4, Joined DEF Spells

LEMMA Sums ==
  \A i \in Nat : /\ i + 1 \in Nat /\ i + 1 + 1 = i + 2 /\ i + 1 + 1 + 1 = i + 3
                 /\ i + 1 + 1 + 1 + 1 = i + 4 /\ i + 1 + 1 + 1 + 1 + 1 = i + 5
OBVIOUS

LEMMA Lengths ==
  ASSUME NEW f
  PROVE  /\ Len(In(f, <<>>)) = 0
         /\ \A a : Len(In(f, <<a>>)) = 1
         /\ \A a, b : Len(In(f, <<a, b>>)) = 2
         /\ \A a, b, c : Len(In(f, <<a, b, c>>)) = 3
         /\ \A a, b, c, d, e : Len(In(f, <<a, b, c, d, e>>)) = 5
BY DEF In

LEMMA Spelling ==
  ASSUME NEW ref, NEW i \in Nat, NEW f
  PROVE  /\ \A a : Spells(ref, i, In(f, <<a>>)) => ByteAt(ref, i + 1, f, a)
         /\ \A a, b : Spells(ref, i, In(f, <<a, b>>)) =>
              ByteAt(ref, i + 1, f, a) /\ ByteAt(ref, i + 1 + 1, f, b)
         /\ \A a, b, c : Spells(ref, i, In(f, <<a, b, c>>)) =>
              /\ ByteAt(ref, i + 1, f, a) /\ ByteAt(ref, i + 1 + 1, f, b)
              /\ ByteAt(ref, i + 1 + 1 + 1, f, c)
         /\ \A a, b, c, d, e : Spells(ref, i, In(f, <<a, b, c, d, e>>)) =>
              /\ ByteAt(ref, i + 1, f, a) /\ ByteAt(ref, i + 1 + 1, f, b)
              /\ ByteAt(ref, i + 1 + 1 + 1, f, c)
              /\ ByteAt(ref, i + 1 + 1 + 1 + 1, f, d)
              /\ ByteAt(ref, i + 1 + 1 + 1 + 1 + 1, f, e)
<1>1. ASSUME NEW a,
             Spells(ref, i, In(f, <<a>>))
      PROVE  /\ ByteAt(ref, i + 1, f, a)
  <2>1. PICK w : w = In(f, <<a>>)
    OBVIOUS
  <2>2. Len(w) = 1 /\ w[1] = <<f, a>>
    BY <2>1 DEF In
  <2>3. \A j \in 1 .. 1 : ref[i + j] = w[j]
    BY <1>1, <2>1, <2>2 DEF Spells
  <2> QED BY <2>2, <2>3, Sums DEF ByteAt
<1>2. ASSUME NEW a, NEW b,
             Spells(ref, i, In(f, <<a, b>>))
      PROVE  /\ ByteAt(ref, i + 1, f, a)
             /\ ByteAt(ref, i + 1 + 1, f, b)
  <2>1. PICK w : w = In(f, <<a, b>>)
    OBVIOUS
  <2>2. Len(w) = 2 /\ w[1] = <<f, a>> /\ w[2] = <<f, b>>
    BY <2>1 DEF In
  <2>3. \A j \in 1 .. 2 : ref[i + j] = w[j]
    BY <1>2, <2>1, <2>2 DEF Spells
  <2> QED BY <2>2, <2>3, Sums DEF ByteAt
<1>3. ASSUME NEW a, NEW b, NEW c,
             Spells(ref, i, In(f, <<a, b, c>>))
      PROVE  /\ ByteAt(ref, i + 1, f, a)
             /\ ByteAt(ref, i + 1 + 1, f, b)
             /\ ByteAt(ref, i + 1 + 1 + 1, f, c)
  <2>1. PICK w : w = In(f, <<a, b, c>>)
    OBVIOUS
  <2>2. Len(w) = 3 /\ w[1] = <<f, a>> /\ w[2] = <<f, b>> /\ w[3] = <<f, c>>
    BY <2>1 DEF In
  <2>3. \A j \in 1 .. 3 : ref[i + j] = w[j]
    BY <1>3, <2>1, <2>2 DEF Spells
  <2> QED BY <2>2, <2>3, Sums DEF ByteAt
<1>4. ASSUME NEW a, NEW b, NEW c, NEW d, NEW e,
             Spells(ref, i, In(f, <<a, b, c, d, e>>))
      PROVE  /\ ByteAt(ref, i + 1, f, a)
             /\ ByteAt(ref, i + 1 + 1, f, b)
             /\ ByteAt(ref, i + 1 + 1 + 1, f, c)
             /\ ByteAt(ref, i + 1 + 1 + 1 + 1, f, d)
             /\ ByteAt(ref, i + 1 + 1 + 1 + 1 + 1, f, e)
  <2>1. PICK w : w = In(f, <<a, b, c, d, e>>)
    OBVIOUS
  <2>2. Len(w) = 5 /\ w[1] = <<f, a>> /\ w[2] = <<f, b>> /\ w[3] = <<f, c>> /\ w[4] = <<f, d>> /\ w[5] = <<f, e>>
    BY <2>1 DEF In
  <2>3. \A j \in 1 .. 5 : ref[i + j] = w[j]
    BY <1>4, <2>1, <2>2 DEF Spells
  <2> QED BY <2>2, <2>3, Sums DEF ByteAt
<1> QED BY <1>1, <1>2, <1>3, <1>4

(* The states of request lines.                                            *)
LEMMA RequestStates ==
  DOMAIN RequestLine =
    {"s_start", "s_method", "s_after_method", "s_after_connect", "s_schema",
     "s_schema_slash", "s_schema_slash_slash", "s_host_start", "s_host",
     "s_colon", "s_port", "s_uri", "s_after_uri", "s_version", "s_end"}
BY DEF RequestLine

LEMMA UriRead ==
  ASSUME NEW E, NEW n \in Nat, NEW ref, NEW i \in Nat, NEW s, NEW g, NEW r, NEW F,
         At(E, n, ref, i, s, g, r, F), Reads(E, RequestLine, n, ref),
         F \subseteq Field, "uri" \notin F,
         <<s, g>> \in {<<"s_after_method", Blank>>, <<"s_host", "host">>,
                       <<"s_port", "port">>},
         Spells(ref, i, In("uri", <<"/", "a">>)),
         ByteAt(ref, i + 1 + 1 + 1, Blank, "sp")
  PROVE  At(E, n, ref, i + 3, "s_after_uri", Blank, 0, F \cup {"uri"})
<1>1. ByteAt(ref, i + 1, "uri", "/") /\ ByteAt(ref, i + 1 + 1, "uri", "a")
  BY Spelling
<1>2. At(E, n, ref, i + 1, "s_uri", "uri", 1, F \cup {"uri"})
  <2>1. Edge(RequestLine, s, "/", "s_uri", g, "uri")
    BY RequestEdges
  <2> QED BY <1>1, <2>1, Begin, Blanks, RequestStates DEF Plain, Field
<1>3. At(E, n, ref, i + 1 + 1, "s_uri", "uri", 1 + 1, F \cup {"uri"})
  BY <1>1, <1>2, GoesOn, RequestEdges, RequestStates DEF Plain, Field
<1>4. At(E, n, ref, i + 1 + 1 + 1, "s_after_uri", Blank, 0, F \cup {"uri"})
  BY <1>3, End, RequestEdges, RequestStates DEF Plain, Field
<1> QED BY <1>4, Sums

(* What was received up to n is ref.                                       *)
Agrees(n, ref) == \A j \in Nat \ {0} : j <= n => Stream[j] = ref[j]

LEMMA Pairs ==
  ASSUME NEW f, NEW a, NEW b, NEW c, NEW d, f = [x \in 1 .. 2 |-> IF x = 1 THEN a ELSE b]
  PROVE  f = <<c, d>> <=> a = c /\ b = d
<1>1. DOMAIN f = 1 .. 2 /\ f[1] = a /\ f[2] = b
  OBVIOUS
<1>2. f = <<a, b>>
  OBVIOUS
<1> QED BY <1>2

(* A method of two tokens ends: CONNECT leads elsewhere.                   *)
LEMMA MethodEnds ==
  ASSUME NEW E, NEW n \in Nat, NEW ref, NEW i \in Nat, NEW F, NEW a, NEW b,
         At(E, n, ref, i + 1 + 1, "s_method", "method", 2, F),
         Reads(E, RequestLine, n, ref), Agrees(n, ref), F \subseteq Field,
         ByteAt(ref, i + 1, "method", a), ByteAt(ref, i + 1 + 1, "method", b),
         ByteAt(ref, i + 1 + 1 + 1, Blank, "sp")
  PROVE  At(E, n, ref, i + 3,
            IF a = "CON" /\ b = "NECT" THEN "s_after_connect"
            ELSE "s_after_method", Blank, 0, F)
<1> DEFINE to == IF a = "CON" /\ b = "NECT" THEN "s_after_connect"
                 ELSE "s_after_method"
<1>1. Run("method", 2, Blank) = 0 /\ Blank \notin Field /\ Blank # "method"
  BY Blanks DEF Run, Field
<1>2. Fits("s_method", "method", 2, Blank) /\ New("method", Blank, F)
  BY <1>1, LimitsAssumption, Limits DEF Fits, New
<1>3. Edge(RequestLine, "s_method", "sp", "s_after_method", "method", Blank)
  BY RequestEdges
<1>4. After(E, RequestLine, n, ref, i + 1 + 1, Blank, "sp", "s_after_method",
            Run("method", 2, Blank), F \cup {Blank})
  BY <1>2, <1>3, LineByte, Zenon
<1>5. After(E, RequestLine, n, ref, i + 2, Blank, "sp", "s_after_method", 0,
            F \cup {Blank})
  BY <1>1, <1>4, Sums
<1>6. /\ i + 3 \in Nat /\ \A j \in 1 .. (i + 3) : Keen(E, n, ref, j)
      /\ Scanned(ref, i + 3, Blank, 0, F)
  <2>1. i + 2 + 1 = i + 3
    OBVIOUS
  <2> QED BY <1>1, <1>5, <2>1 DEF After, Scanned
<1>7. ASSUME i + 3 <= n
      PROVE  E[i + 3] = [state |-> to, str |-> Open(ref, i + 3, Blank),
                         p |-> (i + 3) + 1, rc |-> "AGAIN"]
  <2>1. PICK k : k = E[i + 2]
    OBVIOUS
  <2>2. k = [state |-> "s_method", str |-> Open(ref, i + 2, "method"),
             p |-> (i + 2) + 1, rc |-> "AGAIN"]
    <3>1. At(E, n, ref, i + 2, "s_method", "method", 2, F)
      BY Sums
    <3>2. i + 2 <= n
      BY <1>7
    <3> QED BY <2>1, <3>1, <3>2 DEF At
  <2>3. Found(ref, i + 2, "method") = [data |-> i + 1, len |-> 2]
    <3>1. Scanned(ref, i + 2, "method", 2, F)
      BY Sums DEF At
    <3>2. "method" \in Field /\ ((i + 2) + 1) - 2 = i + 1
      BY DEF Field
    <3>3. Found(ref, i + 2, "method") = [data |-> ((i + 2) + 1) - 2, len |-> 2]
      BY <3>1, <3>2, Zenon DEF Scanned, Ran
    <3> QED BY <3>2, <3>3
  <2>4. k.str["method"] = [data |-> i + 1, len |-> 0]
    BY <2>2, <2>3 DEF Open, Field
  <2>5. Length(k, "method") = 2
    <3>1. k.p = i + 3 /\ k.str["method"].data = i + 1
      BY <2>2, <2>4
    <3>2. Length(k, "method") = k.p - k.str["method"].data
      BY DEF Length
    <3> QED BY <3>1, <3>2
  <2>6. [k.str["method"] EXCEPT !.len = Length(k, "method")]
          = [data |-> i + 1, len |-> 2]
    BY <2>4, <2>5
  <2>7. Contents([data |-> i + 1, len |-> 2])
          = [x \in 1 .. 2 |-> Stream[(i + 1) + x - 1][2]]
    BY DEF Contents
  <2>8. Stream[i + 1][2] = a /\ Stream[i + 2][2] = b
    <3>1. ref[i + 1] = <<"method", a>> /\ ref[i + 2] = <<"method", b>>
      BY Sums DEF ByteAt
    <3>2. Stream[i + 1] = ref[i + 1] /\ Stream[i + 2] = ref[i + 2]
      BY <1>7 DEF Agrees
    <3> QED BY <3>1, <3>2
  <2>9. [x \in 1 .. 2 |-> Stream[(i + 1) + x - 1][2]]
          = [x \in 1 .. 2 |-> IF x = 1 THEN a ELSE b]
    <3>1. ASSUME NEW x \in 1 .. 2
          PROVE  Stream[(i + 1) + x - 1][2] = IF x = 1 THEN a ELSE b
      <4>1. CASE x = 1
        <5>1. (i + 1) + x - 1 = i + 1
          BY <4>1
        <5> QED BY <2>8, <4>1, <5>1
      <4>2. CASE x = 2
        <5>1. (i + 1) + x - 1 = i + 2
          BY <4>2
        <5> QED BY <2>8, <4>2, <5>1
      <4> QED BY <4>1, <4>2
    <3> QED BY <3>1
  <2>10. Connects(k) <=> a = "CON" /\ b = "NECT"
    <3>1. Contents([data |-> i + 1, len |-> 2]) = <<"CON", "NECT">>
            <=> a = "CON" /\ b = "NECT"
      BY <2>7, <2>9, Pairs
    <3>2. k.state = "s_method"
      BY <2>2
    <3> QED BY <2>6, <3>1, <3>2, Zenon DEF Connects
  <2>11. E[i + 3] = [state |-> IF "sp" = "sp" /\ Connects(k)
                               THEN "s_after_connect" ELSE "s_after_method",
                     str |-> Open(ref, i + 3, Blank), p |-> i + 4, rc |-> "AGAIN"]
    <3>1. i + 2 + 1 = i + 3 /\ i + 2 + 2 = i + 4
      OBVIOUS
    <3>2. "s_after_method" \in DOMAIN RequestLine
      BY RequestStates
    <3> QED BY <1>5, <1>7, <2>1, <3>1, <3>2 DEF After
  <2>12. (i + 3) + 1 = i + 4
    OBVIOUS
  <2> QED BY <2>10, <2>11, <2>12
<1> QED BY <1>6, <1>7 DEF At

LEMMA MethodRead ==
  ASSUME NEW E, NEW n \in Nat, NEW ref, NEW i \in Nat,
         At(E, n, ref, i, "s_start", Blank, 0, {}), Reads(E, RequestLine, n, ref),
         Agrees(n, ref), NEW a, NEW b,
         <<a, b>> \in {<<"GE", "T">>, <<"CON", "NECT">>},
         Spells(ref, i, In("method", <<a, b>>)),
         ByteAt(ref, i + 1 + 1 + 1, Blank, "sp")
  PROVE  At(E, n, ref, i + 3,
            IF a = "CON" THEN "s_after_connect" ELSE "s_after_method",
            Blank, 0, {"method"})
<1>1. ByteAt(ref, i + 1, "method", a) /\ ByteAt(ref, i + 1 + 1, "method", b)
  BY Spelling
<1>2. At(E, n, ref, i + 1, "s_method", "method", 1, {} \cup {"method"})
  <2>1. Edge(RequestLine, "s_start", a, "s_method", Blank, "method")
    BY RequestEdges
  <2> QED BY <1>1, <2>1, Begin, Blanks, RequestStates DEF Plain, Field
<1>3. At(E, n, ref, i + 1 + 1, "s_method", "method", 1 + 1, {} \cup {"method"})
  <2>1. Edge(RequestLine, "s_method", b, "s_method", "method", "method")
    BY RequestEdges
  <2>2. b # "sp"
    OBVIOUS
  <2> QED BY <1>1, <1>2, <2>1, <2>2, GoesOn, RequestStates DEF Plain, Field
<1>4. {} \cup {"method"} = {"method"} /\ {"method"} \subseteq Field /\ 1 + 1 = 2
  BY DEF Field
<1>5. At(E, n, ref, i + 1 + 1, "s_method", "method", 2, {"method"})
  BY <1>3, <1>4
<1>6. At(E, n, ref, i + 3,
         IF a = "CON" /\ b = "NECT" THEN "s_after_connect"
         ELSE "s_after_method", Blank, 0, {"method"})
  BY <1>1, <1>4, <1>5, MethodEnds
<1>7. (a = "CON" /\ b = "NECT") <=> a = "CON"
  OBVIOUS
<1> QED BY <1>6, <1>7

(* The line ended with its l bytes.                                        *)
Ended(E, n, ref, l) ==
  /\ l \in Nat
  /\ \A j \in 1 .. l : Keen(E, n, ref, j)
  /\ l <= n => E[l] = [state |-> "DONE", str |-> Open(ref, l, Blank),
                       p |-> l + 1, rc |-> "DONE"]
  /\ Found(ref, l, "uri").len <= 2

LEMMA LineEnds ==
  ASSUME NEW table, NEW E, NEW n \in Nat, NEW ref, NEW i, NEW s, NEW F,
         At(E, n, ref, i, s, Blank, 0, F), Reads(E, table, n, ref),
         ByteAt(ref, i + 1, Blank, "lf"),
         Edge(table, s, "lf", "DONE", Blank, Blank),
         "DONE" \notin DOMAIN table, Plain(s, "lf", Blank, 0)
  PROVE  Ended(E, n, ref, i + 1)
<1>1. Run(Blank, 0, Blank) = 0
  BY Blanks DEF Run
<1>2. Fits(s, Blank, 0, Blank) /\ New(Blank, Blank, F)
  BY <1>1, Blanks, PlainFits DEF New, Field
<1>3. After(E, table, n, ref, i, Blank, "lf", "DONE", Run(Blank, 0, Blank),
            F \cup {Blank})
  BY <1>2, LineByte, Zenon
<1>4. i + 1 \in Nat /\ (i + 1) + 1 = i + 2
  BY <1>3 DEF After
<1>5. "lf" # "sp"
  OBVIOUS
<1> QED BY <1>3, <1>4, <1>5 DEF After, Ended, Scanned

(* The parts of a request line.                                            *)
LEMMA LeadRead ==
  ASSUME NEW E, NEW n \in Nat, NEW ref,
         At(E, n, ref, 0, "s_start", Blank, 0, {}), Reads(E, RequestLine, n, ref),
         ByteAt(ref, 1, Blank, "cr"), ByteAt(ref, 2, Blank, "lf")
  PROVE  At(E, n, ref, 2, "s_start", Blank, 0, {})
<1>1. 0 + 1 = 1 /\ 1 + 1 = 2 /\ {} \subseteq Field
  OBVIOUS
<1>2. At(E, n, ref, 0 + 1, "s_start", Blank, 0, {})
  <2>1. ByteAt(ref, 0 + 1, Blank, "cr")
    BY <1>1
  <2> QED BY <1>1, <2>1, GoesBetween, RequestEdges, RequestStates DEF Plain
<1>3. At(E, n, ref, 1 + 1, "s_start", Blank, 0, {})
  <2>1. ByteAt(ref, 1 + 1, Blank, "lf") /\ At(E, n, ref, 1, "s_start", Blank, 0, {})
    BY <1>1, <1>2
  <2> QED BY <1>1, <2>1, GoesBetween, RequestEdges, RequestStates DEF Plain
<1> QED BY <1>1, <1>3

LEMMA SchemaRead ==
  ASSUME NEW E, NEW n \in Nat, NEW ref, NEW i \in Nat, NEW F,
         At(E, n, ref, i, "s_after_method", Blank, 0, F),
         Reads(E, RequestLine, n, ref), F \subseteq Field, "schema" \notin F,
         Spells(ref, i, In("schema", <<"a", "b">>)),
         Spells(ref, i + 2, In(Blank, <<":", "/", "/">>))
  PROVE  At(E, n, ref, i + 5, "s_host_start", Blank, 0, F \cup {"schema"})
<1>0. F \cup {"schema"} \subseteq Field
  BY DEF Field
<1>1. /\ ByteAt(ref, i + 1, "schema", "a") /\ ByteAt(ref, i + 1 + 1, "schema", "b")
      /\ ByteAt(ref, i + 2 + 1, Blank, ":") /\ ByteAt(ref, i + 2 + 1 + 1, Blank, "/")
      /\ ByteAt(ref, i + 2 + 1 + 1 + 1, Blank, "/")
  BY Spelling
<1>2. At(E, n, ref, i + 1, "s_schema", "schema", 1, F \cup {"schema"})
  BY <1>1, Begin, Blanks, RequestEdges, RequestStates DEF Plain, Field
<1>3. At(E, n, ref, i + 1 + 1, "s_schema", "schema", 1 + 1, F \cup {"schema"})
  BY <1>0, <1>1, <1>2, GoesOn, RequestEdges, RequestStates DEF Plain, Field
<1>4. At(E, n, ref, i + 2, "s_schema", "schema", 2, F \cup {"schema"})
  BY <1>3, Sums
<1>5. At(E, n, ref, i + 2 + 1, "s_schema_slash", Blank, 0, F \cup {"schema"})
  BY <1>0, <1>1, <1>4, End, RequestEdges, RequestStates DEF Plain, Field
<1>6. At(E, n, ref, i + 2 + 1 + 1, "s_schema_slash_slash", Blank, 0,
         F \cup {"schema"})
  BY <1>0, <1>1, <1>5, GoesBetween, RequestEdges, RequestStates DEF Plain
<1>7. At(E, n, ref, i + 2 + 1 + 1 + 1, "s_host_start", Blank, 0,
         F \cup {"schema"})
  BY <1>0, <1>1, <1>6, GoesBetween, RequestEdges, RequestStates DEF Plain
<1>8. i + 2 + 1 + 1 + 1 = i + 5
  OBVIOUS
<1> QED BY <1>7, <1>8

LEMMA HostRead ==
  ASSUME NEW E, NEW n \in Nat, NEW ref, NEW i \in Nat, NEW F, NEW s,
         NEW a, NEW b, NEW c,
         At(E, n, ref, i, s, Blank, 0, F),
         Reads(E, RequestLine, n, ref), F \subseteq Field, "host" \notin F,
         \/ s = "s_host_start" /\ a = "b" /\ b = "." /\ c = "a"
         \/ s = "s_after_connect" /\ a = "a" /\ b = "-" /\ c = "1",
         Spells(ref, i, In("host", <<a, b, c>>))
  PROVE  At(E, n, ref, i + 3, "s_host", "host", 3, F \cup {"host"})
<1>0. F \cup {"host"} \subseteq Field
  BY DEF Field
<1>1. /\ ByteAt(ref, i + 1, "host", a) /\ ByteAt(ref, i + 1 + 1, "host", b)
      /\ ByteAt(ref, i + 1 + 1 + 1, "host", c)
  BY Spelling
<1>2. /\ Edge(RequestLine, s, a, "s_host", Blank, "host")
      /\ Edge(RequestLine, "s_host", b, "s_host", "host", "host")
      /\ Edge(RequestLine, "s_host", c, "s_host", "host", "host")
      /\ s # "s_version" /\ a # "sp" /\ b # "sp" /\ c # "sp"
  BY RequestEdges
<1>3. At(E, n, ref, i + 1, "s_host", "host", 1, F \cup {"host"})
  BY <1>1, <1>2, Begin, Blanks, RequestStates DEF Plain, Field
<1>4. At(E, n, ref, i + 1 + 1, "s_host", "host", 1 + 1, F \cup {"host"})
  BY <1>0, <1>1, <1>2, <1>3, GoesOn, RequestStates DEF Plain, Field
<1>5. At(E, n, ref, i + 1 + 1 + 1, "s_host", "host", 1 + 1 + 1, F \cup {"host"})
  BY <1>0, <1>1, <1>2, <1>4, GoesOn, RequestStates DEF Plain, Field
<1> QED BY <1>5, Sums

LEMMA PortBegins ==
  ASSUME NEW E, NEW n \in Nat, NEW ref, NEW i \in Nat, NEW F, NEW r,
         At(E, n, ref, i, "s_host", "host", r, F),
         Reads(E, RequestLine, n, ref), F \subseteq Field, "port" \notin F,
         ByteAt(ref, i + 1, Blank, ":"), ByteAt(ref, i + 1 + 1, "port", "2")
  PROVE  At(E, n, ref, i + 1 + 1, "s_port", "port", 1, F \cup {"port"})
<1>1. At(E, n, ref, i + 1, "s_colon", Blank, 0, F)
  BY End, RequestEdges, RequestStates DEF Plain, Field
<1>2. At(E, n, ref, i + 1 + 1, "s_port", "port", 1, F \cup {"port"})
  BY <1>1, Begin, Blanks, RequestEdges, RequestStates DEF Plain, Field
<1> QED BY <1>2

LEMMA PortGoesOn ==
  ASSUME NEW E, NEW n \in Nat, NEW ref, NEW i \in Nat, NEW F,
         At(E, n, ref, i, "s_port", "port", 1, F),
         Reads(E, RequestLine, n, ref), F \subseteq Field, "port" \in F,
         ByteAt(ref, i + 1, "port", "1")
  PROVE  At(E, n, ref, i + 1, "s_port", "port", 2, F)
<1>1. At(E, n, ref, i + 1, "s_port", "port", 1 + 1, F)
  BY GoesOn, RequestEdges, RequestStates DEF Plain, Field
<1> QED BY <1>1

LEMMA PortEnds ==
  ASSUME NEW E, NEW n \in Nat, NEW ref, NEW i \in Nat, NEW F, NEW r,
         At(E, n, ref, i, "s_port", "port", r, F),
         Reads(E, RequestLine, n, ref), F \subseteq Field,
         ByteAt(ref, i + 1, Blank, "sp")
  PROVE  At(E, n, ref, i + 1, "s_after_uri", Blank, 0, F)
BY End, RequestEdges, RequestStates DEF Plain, Field

LEMMA VersionRead ==
  ASSUME NEW E, NEW n \in Nat, NEW ref, NEW i \in Nat, NEW F,
         At(E, n, ref, i, "s_after_uri", Blank, 0, F),
         Reads(E, RequestLine, n, ref), F \subseteq Field,
         "http_version" \notin F,
         Spells(ref, i, In("http_version", <<"H", "/", "1">>)),
         Spells(ref, i + 3, In(Blank, <<"cr", "lf">>))
  PROVE  Ended(E, n, ref, i + 5)
<1> DEFINE G == F \cup {"http_version"}
<1>0. G \subseteq Field /\ "http_version" \in G
  BY DEF Field
<1>1. /\ ByteAt(ref, i + 1, "http_version", "H")
      /\ ByteAt(ref, i + 1 + 1, "http_version", "/")
      /\ ByteAt(ref, i + 1 + 1 + 1, "http_version", "1")
      /\ ByteAt(ref, i + 3 + 1, Blank, "cr")
      /\ ByteAt(ref, i + 3 + 1 + 1, Blank, "lf")
  BY Spelling
<1>2. At(E, n, ref, i + 1, "s_version", "http_version", 1, G)
  BY <1>1, Begin, Blanks, RequestEdges, RequestStates DEF Plain, Field
<1> HIDE DEF G
<1>9. /\ Plain("s_version", "/", "http_version", 1)
      /\ Plain("s_version", "1", "http_version", 1 + 1)
      /\ Plain("s_version", "cr", "http_version", 3)
  BY DEF Plain
<1>10. /\ Edge(RequestLine, "s_version", "/", "s_version", "http_version", "http_version")
       /\ Edge(RequestLine, "s_version", "1", "s_version", "http_version", "http_version")
       /\ Edge(RequestLine, "s_version", "cr", "s_end", "http_version", Blank)
       /\ "s_version" \in DOMAIN RequestLine /\ "s_end" \in DOMAIN RequestLine
  BY RequestEdges, RequestStates
<1>11. "http_version" \in Field \ {"method"} /\ "http_version" # "uri"
       /\ "http_version" # "http_code"
  BY DEF Field
<1>3. At(E, n, ref, i + 1 + 1, "s_version", "http_version", 1 + 1, G)
  BY <1>0, <1>1, <1>2, <1>9, <1>10, <1>11, GoesOn
<1>4. At(E, n, ref, i + 1 + 1 + 1, "s_version", "http_version", 1 + 1 + 1, G)
  BY <1>0, <1>1, <1>3, <1>9, <1>10, <1>11, GoesOn
<1>5. At(E, n, ref, i + 3, "s_version", "http_version", 3, G)
  BY <1>4, Sums
<1>6. At(E, n, ref, i + 3 + 1, "s_end", Blank, 0, G)
  BY <1>0, <1>1, <1>5, <1>9, <1>10, <1>11, End
<1>7. Ended(E, n, ref, i + 3 + 1 + 1)
  BY <1>1, <1>6, LineEnds, RequestEdges, RequestStates DEF Plain
<1>8. i + 3 + 1 + 1 = i + 5
  OBVIOUS
<1> QED BY <1>7, <1>8

(* The parts of a status line.                                             *)
LEMMA ResponseStates ==
  DOMAIN ResponseLine =
    {"start", "h", "ht", "htt", "http", "http_slash", "version", "code_start",
     "code", "before_string", "string", "r"}
BY DEF ResponseLine

LEMMA HttpRead ==
  ASSUME NEW E, NEW n \in Nat, NEW ref, NEW i \in Nat,
         At(E, n, ref, i, "start", Blank, 0, {}), Reads(E, ResponseLine, n, ref),
         Spells(ref, i, In(Blank, <<"H", "T", "T", "P", "/">>))
  PROVE  At(E, n, ref, i + 5, "http_slash", Blank, 0, {})
<1>0. {} \subseteq Field
  OBVIOUS
<1>1. /\ ByteAt(ref, i + 1, Blank, "H") /\ ByteAt(ref, i + 1 + 1, Blank, "T")
      /\ ByteAt(ref, i + 1 + 1 + 1, Blank, "T")
      /\ ByteAt(ref, i + 1 + 1 + 1 + 1, Blank, "P")
      /\ ByteAt(ref, i + 1 + 1 + 1 + 1 + 1, Blank, "/")
  BY Spelling
<1>2. At(E, n, ref, i + 1, "h", Blank, 0, {})
  BY <1>0, <1>1, GoesBetween, StatusEdges, ResponseStates DEF Plain
<1>3. At(E, n, ref, i + 1 + 1, "ht", Blank, 0, {})
  BY <1>0, <1>1, <1>2, GoesBetween, StatusEdges, ResponseStates DEF Plain
<1>4. At(E, n, ref, i + 1 + 1 + 1, "htt", Blank, 0, {})
  BY <1>0, <1>1, <1>3, GoesBetween, StatusEdges, ResponseStates DEF Plain
<1>5. At(E, n, ref, i + 1 + 1 + 1 + 1, "http", Blank, 0, {})
  BY <1>0, <1>1, <1>4, GoesBetween, StatusEdges, ResponseStates DEF Plain
<1>6. At(E, n, ref, i + 1 + 1 + 1 + 1 + 1, "http_slash", Blank, 0, {})
  BY <1>0, <1>1, <1>5, GoesBetween, StatusEdges, ResponseStates DEF Plain
<1> QED BY <1>6, Sums

LEMMA NumbersRead ==
  ASSUME NEW E, NEW n \in Nat, NEW ref, NEW i \in Nat,
         At(E, n, ref, i, "http_slash", Blank, 0, {}),
         Reads(E, ResponseLine, n, ref),
         Spells(ref, i, In("http_version", <<"1", ".">>)),
         Spells(ref, i + 2, In(Blank, <<"sp">>)),
         Spells(ref, i + 3, In("http_code", <<"2", "1">>)),
         Spells(ref, i + 5, In(Blank, <<"sp">>))
  PROVE  At(E, n, ref, i + 6, "before_string", Blank, 0,
            {"http_version", "http_code"})
<1>0. /\ {"http_version"} \subseteq Field /\ {"http_version", "http_code"} \subseteq Field
      /\ {} \cup {"http_version"} = {"http_version"}
      /\ {"http_version"} \cup {"http_code"} = {"http_version", "http_code"}
      /\ i + 2 \in Nat /\ i + 3 \in Nat /\ i + 5 \in Nat
      /\ i + 2 + 1 = i + 3 /\ i + 3 + 1 + 1 = i + 5 /\ i + 5 + 1 = i + 6
      /\ 1 + 1 = 2
  BY DEF Field
<1>1. /\ ByteAt(ref, i + 1, "http_version", "1")
      /\ ByteAt(ref, i + 1 + 1, "http_version", ".")
      /\ ByteAt(ref, i + 2 + 1, Blank, "sp")
      /\ ByteAt(ref, i + 3 + 1, "http_code", "2")
      /\ ByteAt(ref, i + 3 + 1 + 1, "http_code", "1")
      /\ ByteAt(ref, i + 5 + 1, Blank, "sp")
  BY <1>0, Spelling
<1>2. At(E, n, ref, i + 1, "version", "http_version", 1, {"http_version"})
  BY <1>0, <1>1, Begin, Blanks, StatusEdges, ResponseStates DEF Plain, Field
<1>3. At(E, n, ref, i + 1 + 1, "version", "http_version", 1 + 1, {"http_version"})
  BY <1>0, <1>1, <1>2, GoesOn, StatusEdges, ResponseStates DEF Plain, Field
<1>4. At(E, n, ref, i + 2, "version", "http_version", 2, {"http_version"})
  BY <1>3, <1>0, Sums
<1>5. At(E, n, ref, i + 2 + 1, "code_start", Blank, 0, {"http_version"})
  BY <1>0, <1>1, <1>4, End, StatusEdges, ResponseStates DEF Plain, Field
<1>6. At(E, n, ref, i + 3, "code_start", Blank, 0, {"http_version"})
  BY <1>0, <1>5
<1>7. At(E, n, ref, i + 3 + 1, "code", "http_code", 1,
         {"http_version"} \cup {"http_code"})
  BY <1>0, <1>1, <1>6, Begin, Blanks, StatusEdges, ResponseStates DEF Plain, Field
<1>8. At(E, n, ref, i + 3 + 1, "code", "http_code", 1,
         {"http_version", "http_code"})
  BY <1>0, <1>7
<1>9. At(E, n, ref, i + 3 + 1 + 1, "code", "http_code", 1 + 1,
         {"http_version", "http_code"})
  BY <1>0, <1>1, <1>8, GoesOn, StatusEdges, ResponseStates DEF Plain, Field
<1>10. At(E, n, ref, i + 5, "code", "http_code", 2, {"http_version", "http_code"})
  BY <1>9, <1>0
<1>11. At(E, n, ref, i + 5 + 1, "before_string", Blank, 0,
          {"http_version", "http_code"})
  <2>1. "http_code" \in Field \ {"method"}
    BY DEF Field
  <2> QED BY <1>0, <1>1, <1>10, <2>1, End, StatusEdges, ResponseStates DEF Plain
<1> QED BY <1>0, <1>11

LEMMA StringRead ==
  ASSUME NEW E, NEW n \in Nat, NEW ref, NEW i \in Nat,
         At(E, n, ref, i, "before_string", Blank, 0,
            {"http_version", "http_code"}),
         Reads(E, ResponseLine, n, ref), NEW s,
         s = <<"GE">> \/ s = <<"GE", "sp">>,
         Spells(ref, i, In("http_string", s)),
         Spells(ref, i + Len(s), In(Blank, <<"cr", "lf">>))
  PROVE  Ended(E, n, ref, i + (Len(s) + 2))
<1> DEFINE F == {"http_version", "http_code"} \cup {"http_string"}
<1>0. F \subseteq Field /\ "http_string" \in F
  BY DEF Field
<1>1. ByteAt(ref, i + 1, "http_string", "GE")
  BY Spelling
<1>2. At(E, n, ref, i + 1, "string", "http_string", 1, F)
  BY <1>1, Begin, Blanks, StatusEdges, ResponseStates DEF Plain, Field
<1> HIDE DEF F
<1>3. \E r : At(E, n, ref, i + Len(s), "string", "http_string", r, F)
  <2>1. CASE s = <<"GE">>
    <3>1. Len(s) = 1
      BY <2>1
    <3> QED BY <1>2, <3>1
  <2>2. CASE s = <<"GE", "sp">>
    <3>1. Len(s) = 2
      BY <2>2
    <3>2. ByteAt(ref, i + 1 + 1, "http_string", "sp")
      BY <2>2, Spelling
    <3>3. At(E, n, ref, i + 1 + 1, "string", "http_string", 1 + 1, F)
      BY <1>0, <1>2, <3>2, GoesOn, StatusEdges, ResponseStates DEF Plain, Field
    <3> QED BY <3>1, <3>3, Sums
  <2> QED BY <2>1, <2>2
<1>4. PICK r : At(E, n, ref, i + Len(s), "string", "http_string", r, F)
  BY <1>3
<1>5. PICK l \in Nat : l = i + Len(s) /\ l + 1 + 1 = i + (Len(s) + 2)
  <2>1. Len(s) \in {1, 2}
    OBVIOUS
  <2> QED BY <2>1
<1>6. ByteAt(ref, l + 1, Blank, "cr") /\ ByteAt(ref, l + 1 + 1, Blank, "lf")
  BY <1>5, Spelling
<1>7. At(E, n, ref, l + 1, "r", Blank, 0, F)
  BY <1>0, <1>4, <1>5, <1>6, End, StatusEdges, ResponseStates DEF Plain, Field
<1>8. Ended(E, n, ref, l + 1 + 1)
  BY <1>6, <1>7, LineEnds, StatusEdges, ResponseStates DEF Plain
<1> QED BY <1>5, <1>8

-----------------------------------------------------------------------------
(* Whole lines.                                                            *)
Start(E, n, ref, s) ==
  /\ E[0] = [state |-> s, str |-> [f \in Field |-> NoString], p |-> 1,
             rc |-> "AGAIN"]
  /\ Agrees(n, ref)

LEMMA Started ==
  ASSUME NEW E, NEW n \in Nat, NEW ref, NEW s, Start(E, n, ref, s)
  PROVE  At(E, n, ref, 0, s, Blank, 0, {})
<1>1. \A f : Tagged(ref, 0, f) = {}
  BY DEF Tagged
<1>2. \A f : Found(ref, 0, f) = NoString
  BY <1>1 DEF Found
<1>3. Open(ref, 0, Blank) = [f \in Field |-> NoString]
  <2>1. Blank \notin Field
    BY Blanks
  <2> QED BY <1>2, <2>1 DEF Open
<1>4. NoString.len <= 2
  BY DEF NoString
<1>5. Scanned(ref, 0, Blank, 0, {})
  BY <1>2, <1>4, Blanks DEF Scanned
<1> QED BY <1>3, <1>5 DEF At, Start

LEMMA StatusRead ==
  ASSUME NEW E, NEW n \in Nat, NEW ref, NEW line \in StatusLines,
         Start(E, n, ref, "start"), Reads(E, ResponseLine, n, ref),
         Spells(ref, 0, line)
  PROVE  Ended(E, n, ref, Len(line))
<1>1. PICK s \in {<<"GE">>, <<"GE", "sp">>} :
        line = Sep(<<"H", "T", "T", "P", "/">>)
               \o In("http_version", <<"1", ".">>) \o Sep(<<"sp">>)
               \o In("http_code", <<"2", "1">>) \o Sep(<<"sp">>)
               \o In("http_string", s) \o Sep(CRLF)
  BY DEF StatusLines
<1>2. /\ Sep(<<"H", "T", "T", "P", "/">>) = In(Blank, <<"H", "T", "T", "P", "/">>)
      /\ Sep(<<"sp">>) = In(Blank, <<"sp">>)
      /\ Sep(CRLF) = In(Blank, <<"cr", "lf">>)
  BY Zenon DEF Sep, Blank, CRLF
<1>3. PICK a, b, c, d, e, f, g :
        /\ a = In(Blank, <<"H", "T", "T", "P", "/">>)
        /\ b = In("http_version", <<"1", ".">>) /\ c = In(Blank, <<"sp">>)
        /\ d = In("http_code", <<"2", "1">>) /\ e = In(Blank, <<"sp">>)
        /\ f = In("http_string", s) /\ g = In(Blank, <<"cr", "lf">>)
  OBVIOUS
<1>4. line = a \o b \o c \o d \o e \o f \o g
  BY <1>1, <1>2, <1>3, Zenon
<1>5. a \in Bytes /\ b \in Bytes /\ c \in Bytes /\ d \in Bytes /\ e \in Bytes
      /\ f \in Bytes /\ g \in Bytes
  <2>1. /\ <<"H", "T", "T", "P", "/">> \in Seq(Token)
        /\ <<"1", ".">> \in Seq(Token) /\ <<"sp">> \in Seq(Token)
        /\ <<"2", "1">> \in Seq(Token)
        /\ <<"cr", "lf">> \in Seq(Token)
    BY Spelled, Tuples
  <2>2. <<"GE">> \in Seq(Token) /\ <<"GE", "sp">> \in Seq(Token)
    BY Spelled, Tuples
  <2>3. s \in Seq(Token)
    BY <2>2
  <2>4. Blank \in Tag
    BY Zenon DEF Blank, Tag
  <2> QED BY <1>3, <2>1, <2>3, <2>4, InBytes, Spelled
<1>6. Len(a) = 5 /\ Len(b) = 2 /\ Len(c) = 1 /\ Len(d) = 2 /\ Len(e) = 1
      /\ Len(g) = 2
  BY <1>3, Lengths
<1>7. Len(f) = Len(s) /\ Len(s) \in Nat
  BY <1>3, Lengths
<1> DEFINE ab == a \o b
           abc == ab \o c
           abcd == abc \o d
           abcde == abcd \o e
           abcdef == abcde \o f
<1>8. ab \in Bytes /\ abc \in Bytes /\ abcd \in Bytes /\ abcde \in Bytes
      /\ abcdef \in Bytes
  BY <1>5, Joined
<1>9. line = abcdef \o g
  BY <1>4
<1>10. Spells(ref, 0, abcdef) /\ Spells(ref, 0 + Len(abcdef), g)
       /\ Len(line) = Len(abcdef) + Len(g)
  <2> HIDE DEF abcdef
  <2> QED BY <1>5, <1>8, <1>9, SpellsJoined
<1>11. Spells(ref, 0, abcde) /\ Spells(ref, 0 + Len(abcde), f)
       /\ Len(abcdef) = Len(abcde) + Len(f)
  <2> HIDE DEF abcde
  <2> QED BY <1>5, <1>8, <1>10, SpellsJoined
<1>12. Spells(ref, 0, abcd) /\ Spells(ref, 0 + Len(abcd), e)
       /\ Len(abcde) = Len(abcd) + Len(e)
  <2> HIDE DEF abcd
  <2> QED BY <1>5, <1>8, <1>11, SpellsJoined
<1>13. Spells(ref, 0, abc) /\ Spells(ref, 0 + Len(abc), d)
       /\ Len(abcd) = Len(abc) + Len(d)
  <2> HIDE DEF abc
  <2> QED BY <1>5, <1>8, <1>12, SpellsJoined
<1>14. Spells(ref, 0, ab) /\ Spells(ref, 0 + Len(ab), c)
       /\ Len(abc) = Len(ab) + Len(c)
  <2> HIDE DEF ab
  <2> QED BY <1>5, <1>8, <1>13, SpellsJoined
<1>15. Spells(ref, 0, a) /\ Spells(ref, 0 + Len(a), b)
       /\ Len(ab) = Len(a) + Len(b)
  BY <1>5, <1>14, SpellsJoined
<1> HIDE DEF ab, abc, abcd, abcde, abcdef
<1>16. /\ Len(ab) = 7 /\ Len(abc) = 8 /\ Len(abcd) = 10 /\ Len(abcde) = 11
       /\ Len(abcdef) = 11 + Len(s) /\ Len(line) = 11 + (Len(s) + 2)
  BY <1>6, <1>7, <1>10, <1>11, <1>12, <1>13, <1>14, <1>15
<1>17. /\ Spells(ref, 0, a) /\ Spells(ref, 5, b) /\ Spells(ref, 7, c)
       /\ Spells(ref, 8, d) /\ Spells(ref, 10, e) /\ Spells(ref, 11, f)
       /\ Spells(ref, 11 + Len(s), g)
  BY <1>6, <1>7, <1>10, <1>11, <1>12, <1>13, <1>14, <1>15, <1>16
<1>18. At(E, n, ref, 0, "start", Blank, 0, {})
  BY Started
<1>19. At(E, n, ref, 5, "http_slash", Blank, 0, {})
  <2>1. At(E, n, ref, 0 + 5, "http_slash", Blank, 0, {})
    BY <1>3, <1>17, <1>18, HttpRead
  <2> QED BY <2>1
<1>20. At(E, n, ref, 11, "before_string", Blank, 0, {"http_version", "http_code"})
  <2>1. 5 \in Nat /\ 5 + 2 = 7 /\ 5 + 3 = 8 /\ 5 + 5 = 10 /\ 5 + 6 = 11
    OBVIOUS
  <2>2. At(E, n, ref, 5 + 6, "before_string", Blank, 0, {"http_version", "http_code"})
    BY <1>3, <1>17, <1>19, <2>1, NumbersRead
  <2> QED BY <2>1, <2>2
<1>21. Ended(E, n, ref, 11 + (Len(s) + 2))
  BY <1>3, <1>17, <1>20, StringRead
<1> QED BY <1>16, <1>21

Cat2(w, a, b) == w = a \o b
Cat3(w, a, b, c) == w = a \o b \o c
Cat5(w, a, b, c, d, e) == w = a \o b \o c \o d \o e

(* Where the parts are.                                                    *)
Laid2(ref, i, a, b, w) ==
  /\ Spells(ref, i, a) /\ Spells(ref, i + Len(a), b)
  /\ Len(w) = Len(a) + Len(b) /\ Len(a) \in Nat /\ Len(b) \in Nat
Laid3(ref, i, a, b, c, w) ==
  /\ Spells(ref, i, a) /\ Spells(ref, i + Len(a), b)
  /\ Spells(ref, i + (Len(a) + Len(b)), c)
  /\ Len(w) = Len(a) + Len(b) + Len(c)
  /\ Len(a) \in Nat /\ Len(b) \in Nat /\ Len(c) \in Nat
Laid5(ref, i, a, b, c, d, e, w) ==
  /\ Spells(ref, i, a) /\ Spells(ref, i + Len(a), b)
  /\ Spells(ref, i + (Len(a) + Len(b)), c)
  /\ Spells(ref, i + (Len(a) + Len(b) + Len(c)), d)
  /\ Spells(ref, i + (Len(a) + Len(b) + Len(c) + Len(d)), e)
  /\ Len(w) = Len(a) + Len(b) + Len(c) + Len(d) + Len(e)
  /\ Len(a) \in Nat /\ Len(b) \in Nat /\ Len(c) \in Nat /\ Len(d) \in Nat
  /\ Len(e) \in Nat

LEMMA Split2 ==
  ASSUME NEW ref, NEW i \in Nat, NEW a \in Bytes, NEW b \in Bytes, NEW w,
         Cat2(w, a, b), Spells(ref, i, w)
  PROVE  Laid2(ref, i, a, b, w)
<1>1. Spells(ref, i, a \o b)
  BY Zenon DEF Cat2
<1>2. /\ Spells(ref, i, a) /\ Spells(ref, i + Len(a), b)
      /\ Len(a \o b) = Len(a) + Len(b) /\ Len(a) \in Nat /\ Len(b) \in Nat
      /\ a \o b \in Bytes
  BY <1>1, SpellsJoined, Zenon
<1> QED BY <1>2, Zenon DEF Cat2, Laid2

LEMMA Split3 ==
  ASSUME NEW ref, NEW i \in Nat, NEW a \in Bytes, NEW b \in Bytes, NEW c \in Bytes,
         NEW w, Cat3(w, a, b, c), Spells(ref, i, w)
  PROVE  Laid3(ref, i, a, b, c, w)
<1>1. PICK ab : ab = a \o b
  OBVIOUS
<1>2. ab \in Bytes
  BY <1>1, Joined
<1>3. Cat2(w, ab, c) /\ Cat2(ab, a, b)
  BY <1>1, Zenon DEF Cat2, Cat3
<1>4. Laid2(ref, i, ab, c, w)
  BY <1>2, <1>3, Split2
<1>5. Spells(ref, i, ab)
  BY <1>4 DEF Laid2
<1>6. Laid2(ref, i, a, b, ab)
  BY <1>3, <1>5, Split2
<1> QED BY <1>4, <1>6 DEF Laid2, Laid3

LEMMA Split5 ==
  ASSUME NEW ref, NEW i \in Nat, NEW a \in Bytes, NEW b \in Bytes, NEW c \in Bytes,
         NEW d \in Bytes, NEW e \in Bytes, NEW w,
         Cat5(w, a, b, c, d, e), Spells(ref, i, w)
  PROVE  Laid5(ref, i, a, b, c, d, e, w)
<1>1. PICK abc : abc = a \o b \o c
  OBVIOUS
<1>2. abc \in Bytes
  BY <1>1, Joined
<1>3. Cat3(w, abc, d, e) /\ Cat3(abc, a, b, c)
  BY <1>1, Zenon DEF Cat3, Cat5
<1>4. Laid3(ref, i, abc, d, e, w)
  BY <1>2, <1>3, Split3
<1>5. Spells(ref, i, abc)
  BY <1>4 DEF Laid3
<1>6. Laid3(ref, i, a, b, c, abc)
  BY <1>3, <1>5, Split3
<1> QED BY <1>4, <1>6 DEF Laid3, Laid5

(* The words that requests are made of.                                    *)
Uri == In("uri", <<"/", "a">>)
PortWord == In(Blank, <<":">>) \o In("port", <<"2", "1">>)
Absolutely(port) == In("schema", <<"a", "b">>) \o In(Blank, <<":", "/", "/">>)
                    \o In("host", <<"b", ".", "a">>) \o port \o Uri
VersionWord == In(Blank, <<"sp">>) \o In("http_version", <<"H", "/", "1">>)
               \o In(Blank, CRLF)
Get(lead, to) == In(Blank, lead) \o In("method", <<"GE", "T">>)
                 \o In(Blank, <<"sp">>) \o to \o VersionWord
Connect == In("method", <<"CON", "NECT">>) \o In(Blank, <<"sp">>)
           \o In("host", <<"a", "-", "1">>) \o In(Blank, <<":">>)
           \o In("port", <<"2">>) \o VersionWord

LEMMA RequestWords ==
  ASSUME NEW line \in RequestLines
  PROVE  \/ line = Connect
         \/ \E lead \in {<<>>, CRLF} :
              \/ line = Get(lead, Uri)
              \/ \E port \in {<<>>, PortWord} : line = Get(lead, Absolutely(port))
<1>1. Sep(<<"sp">>) = In(Blank, <<"sp">>) /\ Sep(<<":">>) = In(Blank, <<":">>)
      /\ Sep(<<":", "/", "/">>) = In(Blank, <<":", "/", "/">>)
      /\ Sep(CRLF) = In(Blank, CRLF)
      /\ \A lead : Sep(lead) = In(Blank, lead)
  BY Zenon DEF Sep, Blank
<1> DEFINE Tos == {Uri} \cup {Absolutely(port) : port \in {<<>>, PortWord}}
           Leads == {<<>>, CRLF}
<1>2. RequestLines = {Get(lead, to) : lead \in Leads, to \in Tos} \cup {Connect}
  <2> DEFINE V == Sep(<<"sp">>) \o In("http_version", <<"H", "/", "1">>)
                \o Sep(CRLF)
             uri == In("uri", <<"/", "a">>)
             some == Sep(<<":">>) \o In("port", <<"2", "1">>)
             Abs(port) == In("schema", <<"a", "b">>) \o Sep(<<":", "/", "/">>)
                        \o In("host", <<"b", ".", "a">>) \o port \o uri
             con == In("method", <<"CON", "NECT">>) \o Sep(<<"sp">>)
                  \o In("host", <<"a", "-", "1">>) \o Sep(<<":">>)
                  \o In("port", <<"2">>) \o V
             get(lead, to) == Sep(lead) \o In("method", <<"GE", "T">>)
                                \o Sep(<<"sp">>) \o to \o V
  <2>1. RequestLines =
          {get(lead, to) : lead \in {<<>>, CRLF},
             to \in {uri} \cup {Abs(port) : port \in {<<>>, some}}}
          \cup {con}
    BY SMT DEF RequestLines
  <2>2. V = VersionWord /\ uri = Uri /\ some = PortWord /\ con = Connect
    BY <1>1, Zenon DEF VersionWord, Uri, PortWord, Connect
  <2>3. \A port : Abs(port) = Absolutely(port)
    BY <1>1, Zenon DEF Absolutely, Uri
  <2>4. \A lead, to : get(lead, to) = Get(lead, to)
    BY <1>1, Zenon DEF Get, VersionWord
  <2> HIDE DEF V, uri, some, Abs, con, get
  <2>5. {uri} \cup {Abs(port) : port \in {<<>>, some}} = Tos
    BY <2>2, <2>3
  <2> HIDE DEF Tos
  <2> QED BY <2>1, <2>2, <2>4, <2>5, SMT
<1>3. \/ line = Connect
      \/ \E lead \in Leads : \E to \in Tos : line = Get(lead, to)
  <2> HIDE DEF Leads, Tos
  <2> QED BY <1>2, SMT
<1> QED BY <1>3

LEMMA WordBytes ==
  /\ In(Blank, <<"sp">>) \in Bytes /\ In(Blank, <<":">>) \in Bytes
  /\ In(Blank, <<":", "/", "/">>) \in Bytes /\ In(Blank, CRLF) \in Bytes
  /\ In(Blank, <<>>) \in Bytes
  /\ In("http_version", <<"H", "/", "1">>) \in Bytes /\ Uri \in Bytes
  /\ In("port", <<"2", "1">>) \in Bytes /\ In("port", <<"2">>) \in Bytes
  /\ In("schema", <<"a", "b">>) \in Bytes
  /\ In("host", <<"b", ".", "a">>) \in Bytes
  /\ In("host", <<"a", "-", "1">>) \in Bytes
  /\ In("method", <<"GE", "T">>) \in Bytes
  /\ In("method", <<"CON", "NECT">>) \in Bytes
  /\ <<>> \in Bytes /\ PortWord \in Bytes /\ VersionWord \in Bytes
<1>1. /\ <<"sp">> \in Seq(Token) /\ <<"H", "/", "1">> \in Seq(Token)
      /\ <<"/", "a">> \in Seq(Token) /\ <<":">> \in Seq(Token)
      /\ <<"2", "1">> \in Seq(Token) /\ <<"a", "b">> \in Seq(Token)
      /\ <<":", "/", "/">> \in Seq(Token) /\ <<"b", ".", "a">> \in Seq(Token)
      /\ <<"CON", "NECT">> \in Seq(Token) /\ <<"a", "-", "1">> \in Seq(Token)
      /\ <<"2">> \in Seq(Token) /\ <<"GE", "T">> \in Seq(Token)
      /\ CRLF \in Seq(Token) /\ <<>> \in Seq(Token)
  BY Spelled, Tuples DEF CRLF
<1>2. Blank \in Tag
  BY Zenon DEF Blank, Tag
<1>3. /\ In(Blank, <<"sp">>) \in Bytes /\ In(Blank, <<":">>) \in Bytes
      /\ In(Blank, <<":", "/", "/">>) \in Bytes /\ In(Blank, CRLF) \in Bytes
      /\ In(Blank, <<>>) \in Bytes
      /\ In("http_version", <<"H", "/", "1">>) \in Bytes /\ Uri \in Bytes
      /\ In("port", <<"2", "1">>) \in Bytes /\ In("port", <<"2">>) \in Bytes
      /\ In("schema", <<"a", "b">>) \in Bytes
      /\ In("host", <<"b", ".", "a">>) \in Bytes
      /\ In("host", <<"a", "-", "1">>) \in Bytes
      /\ In("method", <<"GE", "T">>) \in Bytes
      /\ In("method", <<"CON", "NECT">>) \in Bytes
  BY <1>1, <1>2, InBytes, Spelled DEF Uri
<1>4. <<>> \in Bytes
  BY Tuples DEF Bytes
<1> QED BY <1>3, <1>4, Joined DEF PortWord, VersionWord

(* The target of a request that is not a CONNECT.                          *)
LEMMA TargetRead ==
  ASSUME NEW E, NEW n \in Nat, NEW ref, NEW i \in Nat, NEW to,
         \/ to = Uri
         \/ \E port \in {<<>>, PortWord} : to = Absolutely(port),
         At(E, n, ref, i, "s_after_method", Blank, 0, {"method"}),
         Reads(E, RequestLine, n, ref),
         Spells(ref, i, to), ByteAt(ref, (i + Len(to)) + 1, Blank, "sp")
  PROVE  \E F \in SUBSET (Field \ {"http_version"}) :
           At(E, n, ref, i + (Len(to) + 1), "s_after_uri", Blank, 0, F)
<1>1. /\ Len(Uri) = 2 /\ Len(In("schema", <<"a", "b">>)) = 2
      /\ Len(In(Blank, <<":", "/", "/">>)) = 3
      /\ Len(In("host", <<"b", ".", "a">>)) = 3
      /\ Len(In(Blank, <<":">>)) = 1 /\ Len(In("port", <<"2", "1">>)) = 2
      /\ Len(<<>>) = 0
  BY Lengths DEF Uri
<1>2. CASE to = Uri
  <2>1. (i + 2) + 1 = i + 1 + 1 + 1 /\ i + (2 + 1) = i + 3
    OBVIOUS
  <2>2. At(E, n, ref, i + 3, "s_after_uri", Blank, 0, {"method"} \cup {"uri"})
    <3>1. {"method"} \subseteq Field /\ "uri" \notin {"method"}
      BY DEF Field
    <3>2. ByteAt(ref, i + 1 + 1 + 1, Blank, "sp")
      BY <1>1, <1>2, <2>1
    <3>3. Spells(ref, i, In("uri", <<"/", "a">>))
      BY <1>2 DEF Uri
    <3> QED BY <3>1, <3>2, <3>3, UriRead
  <2>3. {"method"} \cup {"uri"} \in SUBSET (Field \ {"http_version"})
    BY DEF Field
  <2> QED BY <1>1, <1>2, <2>1, <2>2, <2>3
<1>3. ASSUME NEW port \in {<<>>, PortWord}, to = Absolutely(port)
      PROVE  \E F \in SUBSET (Field \ {"http_version"}) :
               At(E, n, ref, i + (Len(to) + 1), "s_after_uri", Blank, 0, F)
  <2>1. PICK a, b, c : /\ a = In("schema", <<"a", "b">>)
                       /\ b = In(Blank, <<":", "/", "/">>)
                       /\ c = In("host", <<"b", ".", "a">>)
    OBVIOUS
  <2>2. Cat5(to, a, b, c, port, Uri)
    BY <1>3, <2>1, Zenon DEF Absolutely, Cat5
  <2>3. a \in Bytes /\ b \in Bytes /\ c \in Bytes /\ port \in Bytes /\ Uri \in Bytes
        /\ Len(a) = 2 /\ Len(b) = 3 /\ Len(c) = 3 /\ Len(Uri) = 2
    BY <1>1, <2>1, WordBytes
  <2>4. /\ Spells(ref, i, a) /\ Spells(ref, i + Len(a), b)
        /\ Spells(ref, i + (Len(a) + Len(b)), c)
        /\ Spells(ref, i + (Len(a) + Len(b) + Len(c)), port)
        /\ Spells(ref, i + (Len(a) + Len(b) + Len(c) + Len(port)), Uri)
        /\ Len(to) = Len(a) + Len(b) + Len(c) + Len(port) + Len(Uri)
        /\ Len(port) \in Nat
    <3>1. Spells(ref, i, to)
      OBVIOUS
    <3>2. Laid5(ref, i, a, b, c, port, Uri, to)
      BY <2>2, <2>3, <3>1, Split5
    <3> QED BY <3>2 DEF Laid5
  <2>5. PICK j \in Nat, p \in Nat, u \in Nat :
          j = i + 5 /\ p = j + 3 /\ u = p + Len(port)
    <3>1. PICK k \in Nat : k = Len(port)
      BY <2>4
    <3>2. i + 5 \in Nat /\ (i + 5) + 3 \in Nat /\ ((i + 5) + 3) + k \in Nat
      OBVIOUS
    <3> QED BY <3>1, <3>2, Zenon
  <2>6. /\ Spells(ref, i, a) /\ Spells(ref, i + 2, b) /\ Spells(ref, j, c)
        /\ Spells(ref, p, port) /\ Spells(ref, u, Uri)
        /\ i + (Len(to) + 1) = u + 3 /\ (i + Len(to)) + 1 = u + 1 + 1 + 1
    <3>1. i + (Len(a) + Len(b)) = j /\ i + (Len(a) + Len(b) + Len(c)) = p
          /\ i + (Len(a) + Len(b) + Len(c) + Len(port)) = u
      BY <2>3, <2>4, <2>5
    <3>2. i + (Len(to) + 1) = u + 3 /\ (i + Len(to)) + 1 = u + 1 + 1 + 1
      BY <2>3, <2>4, <2>5
    <3> QED BY <2>3, <2>4, <3>1, <3>2
  <2>7. At(E, n, ref, j, "s_host_start", Blank, 0, {"method"} \cup {"schema"})
    <3>1. {"method"} \subseteq Field /\ "schema" \notin {"method"}
      BY DEF Field
    <3> QED BY <2>1, <2>5, <2>6, <3>1, SchemaRead
  <2> DEFINE F == ({"method"} \cup {"schema"}) \cup {"host"}
  <2>8. At(E, n, ref, p, "s_host", "host", 3, F)
    <3>1. {"method"} \cup {"schema"} \subseteq Field
          /\ "host" \notin {"method"} \cup {"schema"}
      BY DEF Field
    <3> QED BY <2>1, <2>5, <2>6, <2>7, <3>1, HostRead
  <2>9. F \subseteq Field /\ "port" \notin F /\ "uri" \notin F
        /\ F \cup {"port"} \subseteq Field /\ "uri" \notin F \cup {"port"}
        /\ F \cup {"uri"} \in SUBSET (Field \ {"http_version"})
        /\ (F \cup {"port"}) \cup {"uri"} \in SUBSET (Field \ {"http_version"})
    BY DEF Field
  <2> HIDE DEF F
  <2>10. ByteAt(ref, u + 1 + 1 + 1, Blank, "sp") /\ Spells(ref, u, In("uri", <<"/", "a">>))
    BY <2>6 DEF Uri
  <2>11. CASE port = <<>>
    <3>1. u = p
      BY <1>1, <2>5, <2>11
    <3>2. At(E, n, ref, u + 3, "s_after_uri", Blank, 0, F \cup {"uri"})
      BY <2>8, <2>9, <2>10, <3>1, UriRead
    <3> QED BY <2>6, <2>9, <3>2
  <2>12. CASE port = PortWord
    <3>1. PICK x, y : x = In(Blank, <<":">>) /\ y = In("port", <<"2", "1">>)
                      /\ Cat2(port, x, y)
      BY <2>12 DEF PortWord, Cat2
    <3>2. x \in Bytes /\ y \in Bytes /\ Len(x) = 1 /\ Len(y) = 2
      BY <1>1, <3>1, WordBytes
    <3>3. Spells(ref, p, x) /\ Spells(ref, p + 1, y) /\ Len(port) = 3
      <4>1. /\ Spells(ref, p, x) /\ Spells(ref, p + Len(x), y)
            /\ Len(port) = Len(x) + Len(y)
        <5>1. Laid2(ref, p, x, y, port)
          BY <2>5, <2>6, <3>1, <3>2, Split2
        <5> QED BY <5>1 DEF Laid2
      <4> QED BY <3>2, <4>1
    <3>4. ByteAt(ref, p + 1, Blank, ":") /\ ByteAt(ref, p + 1 + 1, "port", "2")
          /\ ByteAt(ref, p + 1 + 1 + 1, "port", "1")
      BY <3>1, <3>3, Spelling
    <3>5. At(E, n, ref, p + 1 + 1, "s_port", "port", 1, F \cup {"port"})
      BY <2>8, <2>9, <3>4, PortBegins
    <3>6. At(E, n, ref, p + 1 + 1 + 1, "s_port", "port", 2, F \cup {"port"})
      <4>1. "port" \in F \cup {"port"} /\ p + 1 + 1 \in Nat
        OBVIOUS
      <4> QED BY <2>9, <3>4, <3>5, <4>1, PortGoesOn
    <3>7. p + 1 + 1 + 1 = u
      BY <2>5, <3>3
    <3>8. At(E, n, ref, u + 3, "s_after_uri", Blank, 0, (F \cup {"port"}) \cup {"uri"})
      <4>1. At(E, n, ref, u, "s_port", "port", 2, F \cup {"port"})
        BY <3>6, <3>7
      <4> QED BY <2>9, <2>10, <4>1, UriRead
    <3> QED BY <2>6, <2>9, <3>8
  <2> QED BY <2>11, <2>12
<1> QED BY <1>2, <1>3

LEMMA GetRead ==
  ASSUME NEW E, NEW n \in Nat, NEW ref, NEW lead \in {<<>>, CRLF}, NEW to,
         \/ to = Uri
         \/ \E port \in {<<>>, PortWord} : to = Absolutely(port),
         Start(E, n, ref, "s_start"), Reads(E, RequestLine, n, ref),
         Spells(ref, 0, Get(lead, to))
  PROVE  Ended(E, n, ref, Len(Get(lead, to)))
<1>1. PICK a, b, c : /\ a = In(Blank, lead) /\ b = In("method", <<"GE", "T">>)
                     /\ c = In(Blank, <<"sp">>)
  OBVIOUS
<1>2. a \in Bytes /\ b \in Bytes /\ c \in Bytes /\ VersionWord \in Bytes
      /\ Len(b) = 2 /\ Len(c) = 1
  BY <1>1, WordBytes, Lengths
<1>3. to \in Bytes
  <2>1. \A port \in Bytes : Absolutely(port) \in Bytes
    BY WordBytes, Joined DEF Absolutely
  <2> QED BY <2>1, WordBytes
<1>4. Cat5(Get(lead, to), a, b, c, to, VersionWord)
  BY <1>1, Zenon DEF Get, Cat5
<1>5. /\ Spells(ref, 0, a) /\ Spells(ref, 0 + Len(a), b)
      /\ Spells(ref, 0 + (Len(a) + Len(b)), c)
      /\ Spells(ref, 0 + (Len(a) + Len(b) + Len(c)), to)
      /\ Spells(ref, 0 + (Len(a) + Len(b) + Len(c) + Len(to)), VersionWord)
      /\ Len(Get(lead, to)) = Len(a) + Len(b) + Len(c) + Len(to) + Len(VersionWord)
      /\ Len(a) \in Nat /\ Len(to) \in Nat
  <2>1. PICK w : w = Get(lead, to)
    OBVIOUS
  <2>2. Spells(ref, 0, w) /\ Cat5(w, a, b, c, to, VersionWord) /\ 0 \in Nat
    BY <1>4, <2>1
  <2>3. Laid5(ref, 0, a, b, c, to, VersionWord, w)
    BY <1>2, <1>3, <2>2, Split5
  <2> QED BY <2>1, <2>3 DEF Laid5
<1>6. PICK l \in Nat, m \in Nat, v \in Nat :
        l = Len(a) /\ m = l + 3 /\ v = m + Len(to)
  BY <1>5
<1>7. /\ Spells(ref, 0, a) /\ Spells(ref, l, b) /\ Spells(ref, l + 2, c)
      /\ Spells(ref, m, to) /\ Spells(ref, v, VersionWord)
  <2>1. 0 + (Len(a) + Len(b)) = l + 2 /\ 0 + (Len(a) + Len(b) + Len(c)) = m
        /\ 0 + (Len(a) + Len(b) + Len(c) + Len(to)) = v /\ 0 + Len(a) = l
    BY <1>2, <1>5, <1>6
  <2> QED BY <1>5, <2>1
<1>8. PICK x, y, z : /\ x = In(Blank, <<"sp">>)
                     /\ y = In("http_version", <<"H", "/", "1">>)
                     /\ z = In(Blank, CRLF) /\ Cat3(VersionWord, x, y, z)
  BY DEF VersionWord, Cat3
<1>9. /\ Spells(ref, v, x) /\ Spells(ref, v + 1, y) /\ Spells(ref, v + 1 + 3, z)
      /\ Len(VersionWord) = 6
  <2>1. x \in Bytes /\ y \in Bytes /\ z \in Bytes /\ Len(x) = 1 /\ Len(y) = 3
        /\ Len(z) = 2
    BY <1>8, WordBytes, Lengths DEF CRLF
  <2>2. v + (1 + 3) = v + 1 + 3
    OBVIOUS
  <2>3. /\ Spells(ref, v, x) /\ Spells(ref, v + Len(x), y)
        /\ Spells(ref, v + (Len(x) + Len(y)), z)
        /\ Len(VersionWord) = Len(x) + Len(y) + Len(z)
    <3>1. Laid3(ref, v, x, y, z, VersionWord)
      BY <1>6, <1>7, <1>8, <2>1, Split3
    <3> QED BY <3>1 DEF Laid3
  <2> QED BY <2>1, <2>2, <2>3
<1>10. At(E, n, ref, l, "s_start", Blank, 0, {})
  <2>1. At(E, n, ref, 0, "s_start", Blank, 0, {})
    BY Started
  <2>2. CASE lead = <<>>
    <3>1. l = 0
      BY <1>1, <1>6, <2>2, Lengths
    <3> QED BY <2>1, <3>1
  <2>3. CASE lead = CRLF
    <3>1. l = 2 /\ a = In(Blank, <<"cr", "lf">>)
      BY <1>1, <1>6, <2>3, Lengths DEF CRLF
    <3>2. ByteAt(ref, 0 + 1, Blank, "cr") /\ ByteAt(ref, 0 + 1 + 1, Blank, "lf")
      BY <1>7, <3>1, Spelling
    <3>3. 0 + 1 = 1 /\ 0 + 1 + 1 = 2
      OBVIOUS
    <3> QED BY <2>1, <3>1, <3>2, <3>3, LeadRead
  <2> QED BY <2>2, <2>3
<1>11. At(E, n, ref, m, "s_after_method", Blank, 0, {"method"})
  <2>1. ByteAt(ref, l + 2 + 1, Blank, "sp")
    BY <1>1, <1>7, Spelling
  <2>2. l + 2 + 1 = l + 1 + 1 + 1
    OBVIOUS
  <2>3. At(E, n, ref, l + 3,
           IF "GE" = "CON" THEN "s_after_connect" ELSE "s_after_method",
           Blank, 0, {"method"})
    <3>1. Agrees(n, ref)
      BY DEF Start
    <3>2. ByteAt(ref, l + 1 + 1 + 1, Blank, "sp")
      BY <2>1, <2>2
    <3>3. <<"GE", "T">> \in {<<"GE", "T">>, <<"CON", "NECT">>}
      OBVIOUS
    <3> QED BY <1>1, <1>7, <1>10, <3>1, <3>2, <3>3, MethodRead
  <2> QED BY <1>6, <2>3
<1>12. PICK F \in SUBSET (Field \ {"http_version"}) :
         At(E, n, ref, m + (Len(to) + 1), "s_after_uri", Blank, 0, F)
  <2>1. ByteAt(ref, v + 1, Blank, "sp")
    BY <1>8, <1>9, Spelling
  <2>2. ByteAt(ref, (m + Len(to)) + 1, Blank, "sp")
    BY <1>6, <2>1
  <2> QED BY <1>7, <1>11, <2>2, TargetRead
<1>13. At(E, n, ref, v + 1, "s_after_uri", Blank, 0, F)
  <2>1. m + (Len(to) + 1) = v + 1
    BY <1>5, <1>6
  <2> QED BY <1>12, <2>1
<1>14. Ended(E, n, ref, v + 1 + 5)
  <2>1. v + 1 \in Nat /\ F \subseteq Field /\ "http_version" \notin F
    BY <1>12
  <2>2. Spells(ref, v + 1, In("http_version", <<"H", "/", "1">>))
        /\ Spells(ref, v + 1 + 3, In(Blank, <<"cr", "lf">>))
    BY <1>8, <1>9 DEF CRLF
  <2> QED BY <1>13, <2>1, <2>2, VersionRead
<1>15. v + 1 + 5 = Len(Get(lead, to))
  BY <1>2, <1>5, <1>6, <1>9
<1> QED BY <1>14, <1>15

LEMMA ConnectRead ==
  ASSUME NEW E, NEW n \in Nat, NEW ref,
         Start(E, n, ref, "s_start"), Reads(E, RequestLine, n, ref),
         Spells(ref, 0, Connect)
  PROVE  Ended(E, n, ref, Len(Connect))
<1>1. PICK a, b, c, d, e :
        /\ a = In("method", <<"CON", "NECT">>) /\ b = In(Blank, <<"sp">>)
        /\ c = In("host", <<"a", "-", "1">>) /\ d = In(Blank, <<":">>)
        /\ e = In("port", <<"2">>)
  OBVIOUS
<1>2. /\ a \in Bytes /\ b \in Bytes /\ c \in Bytes /\ d \in Bytes /\ e \in Bytes
      /\ VersionWord \in Bytes
      /\ Len(a) = 2 /\ Len(b) = 1 /\ Len(c) = 3 /\ Len(d) = 1 /\ Len(e) = 1
  BY <1>1, WordBytes, Lengths
<1>3. PICK w : Cat5(w, a, b, c, d, e)
  BY DEF Cat5
<1>4. w \in Bytes
  <2>1. \A p, q, r, s, t \in Bytes : p \o q \o r \o s \o t \in Bytes
    BY Joined
  <2> QED BY <1>2, <1>3, <2>1 DEF Cat5
<1>5. Cat2(Connect, w, VersionWord)
  BY <1>1, <1>3, Zenon DEF Connect, Cat2, Cat5
<1>6. Spells(ref, 0, w) /\ Spells(ref, 0 + Len(w), VersionWord)
      /\ Len(Connect) = Len(w) + Len(VersionWord)
  <2>1. 0 \in Nat
    OBVIOUS
  <2>2. Laid2(ref, 0, w, VersionWord, Connect)
    BY <1>2, <1>4, <1>5, <2>1, Split2
  <2> QED BY <2>2 DEF Laid2
<1>7. /\ Spells(ref, 0, a) /\ Spells(ref, 2, b) /\ Spells(ref, 3, c)
      /\ Spells(ref, 6, d) /\ Spells(ref, 7, e) /\ Len(w) = 8
  <2>1. /\ Spells(ref, 0, a) /\ Spells(ref, 0 + Len(a), b)
        /\ Spells(ref, 0 + (Len(a) + Len(b)), c)
        /\ Spells(ref, 0 + (Len(a) + Len(b) + Len(c)), d)
        /\ Spells(ref, 0 + (Len(a) + Len(b) + Len(c) + Len(d)), e)
        /\ Len(w) = Len(a) + Len(b) + Len(c) + Len(d) + Len(e)
    <3>1. 0 \in Nat
      OBVIOUS
    <3>2. Laid5(ref, 0, a, b, c, d, e, w)
      BY <1>2, <1>3, <1>6, <3>1, Split5
    <3> QED BY <3>2 DEF Laid5
  <2> QED BY <1>2, <2>1
<1>8. PICK x, y, z : /\ x = In(Blank, <<"sp">>)
                     /\ y = In("http_version", <<"H", "/", "1">>)
                     /\ z = In(Blank, CRLF) /\ Cat3(VersionWord, x, y, z)
  BY DEF VersionWord, Cat3
<1>9. /\ Spells(ref, 8, x) /\ Spells(ref, 9, y) /\ Spells(ref, 12, z)
      /\ Len(VersionWord) = 6
  <2>1. x \in Bytes /\ y \in Bytes /\ z \in Bytes /\ Len(x) = 1 /\ Len(y) = 3
        /\ Len(z) = 2
    BY <1>8, WordBytes, Lengths DEF CRLF
  <2>2. 0 + 8 = 8 /\ 8 + 1 = 9 /\ 8 + (1 + 3) = 12
    OBVIOUS
  <2>3. Spells(ref, 8, VersionWord)
    BY <1>6, <1>7, <2>2
  <2>4. /\ Spells(ref, 8, x) /\ Spells(ref, 8 + Len(x), y)
        /\ Spells(ref, 8 + (Len(x) + Len(y)), z)
        /\ Len(VersionWord) = Len(x) + Len(y) + Len(z)
    <3>1. 8 \in Nat
      OBVIOUS
    <3>2. Laid3(ref, 8, x, y, z, VersionWord)
      BY <1>8, <2>1, <2>3, <3>1, Split3
    <3> QED BY <3>2 DEF Laid3
  <2> QED BY <2>1, <2>2, <2>4
<1>10. At(E, n, ref, 0, "s_start", Blank, 0, {})
  BY Started
<1>11. At(E, n, ref, 3, "s_after_connect", Blank, 0, {"method"})
  <2>1. ByteAt(ref, 2 + 1, Blank, "sp") /\ 2 + 1 = 0 + 1 + 1 + 1 /\ 0 + 3 = 3
    BY <1>1, <1>7, Spelling
  <2>2. At(E, n, ref, 0 + 3,
           IF "CON" = "CON" THEN "s_after_connect" ELSE "s_after_method",
           Blank, 0, {"method"})
    <3>1. Agrees(n, ref)
      BY DEF Start
    <3>2. ByteAt(ref, 0 + 1 + 1 + 1, Blank, "sp")
      BY <2>1
    <3>3. <<"CON", "NECT">> \in {<<"GE", "T">>, <<"CON", "NECT">>}
      OBVIOUS
    <3> QED BY <1>1, <1>7, <1>10, <3>1, <3>2, <3>3, MethodRead
  <2> QED BY <2>1, <2>2
<1> DEFINE F == {"method"} \cup {"host"}
<1>12. At(E, n, ref, 6, "s_host", "host", 3, F)
  <2>1. {"method"} \subseteq Field /\ "host" \notin {"method"} /\ 3 + 3 = 6
    BY DEF Field
  <2>2. At(E, n, ref, 3 + 3, "s_host", "host", 3, F)
    BY <1>1, <1>7, <1>11, <2>1, HostRead
  <2> QED BY <2>1, <2>2
<1>13. F \subseteq Field /\ "port" \notin F /\ F \cup {"port"} \subseteq Field
       /\ "http_version" \notin F \cup {"port"}
  BY DEF Field
<1> HIDE DEF F
<1>14. At(E, n, ref, 8, "s_port", "port", 1, F \cup {"port"})
  <2>1. ByteAt(ref, 6 + 1, Blank, ":") /\ ByteAt(ref, 7 + 1, "port", "2")
    BY <1>1, <1>7, Spelling
  <2>2. ByteAt(ref, 6 + 1 + 1, "port", "2") /\ 6 + 1 + 1 = 8
    BY <2>1
  <2>3. At(E, n, ref, 6 + 1 + 1, "s_port", "port", 1, F \cup {"port"})
    BY <1>12, <1>13, <2>1, <2>2, PortBegins
  <2> QED BY <2>2, <2>3
<1>15. At(E, n, ref, 8 + 1, "s_after_uri", Blank, 0, F \cup {"port"})
  <2>1. ByteAt(ref, 8 + 1, Blank, "sp")
    BY <1>8, <1>9, Spelling
  <2> QED BY <1>13, <1>14, <2>1, PortEnds
<1>16. Ended(E, n, ref, 9 + 5)
  <2>1. 8 + 1 = 9 /\ 9 + 3 = 12
    OBVIOUS
  <2>2. Spells(ref, 9, In("http_version", <<"H", "/", "1">>))
        /\ Spells(ref, 9 + 3, In(Blank, <<"cr", "lf">>))
    BY <1>8, <1>9, <2>1 DEF CRLF
  <2>3. At(E, n, ref, 9, "s_after_uri", Blank, 0, F \cup {"port"})
    BY <1>15, <2>1
  <2> QED BY <1>13, <2>2, <2>3, VersionRead
<1>17. 9 + 5 = Len(Connect)
  BY <1>6, <1>7, <1>9
<1> QED BY <1>16, <1>17

LEMMA RequestRead ==
  ASSUME NEW E, NEW n \in Nat, NEW ref, NEW line \in RequestLines,
         Start(E, n, ref, "s_start"), Reads(E, RequestLine, n, ref),
         Spells(ref, 0, line)
  PROVE  Ended(E, n, ref, Len(line))
<1>1. CASE line = Connect
  BY <1>1, ConnectRead
<1>2. ASSUME NEW lead \in {<<>>, CRLF}, NEW to,
             to = Uri \/ \E port \in {<<>>, PortWord} : to = Absolutely(port),
             line = Get(lead, to)
      PROVE  Ended(E, n, ref, Len(line))
  BY <1>2, GetRead, Zenon
<1> QED BY <1>1, <1>2, RequestWords, Zenon

-----------------------------------------------------------------------------
(* Headers.  In state s the byte b, and it alone, leads by a transition    *)
(* that ends e and begins g.                                               *)
Turn(s, b, to, e, g) ==
  \E t : Picks(HeaderLine, s, b, t) /\ t.to = to /\ t.ends = e /\ t.begins = g

LEMMA HeaderEntries ==
  /\ HeaderLine["s_start"] = {Trans({"cr"}, "s_header_end_r", {}, {}),
       Trans(Printed, "s_name", {}, {"header_key"})}
  /\ HeaderLine["s_name"] = {Trans(Printed \ {":"}, "s_name", {}, {}),
       Trans({":"}, "s_value_before", {"header_key"}, {})}
  /\ HeaderLine["s_value_before"] = {Trans({"sp"}, "s_value_before", {}, {}),
       Trans(Token \ {"sp"}, "s_value", {}, {"header_value"})}
  /\ HeaderLine["s_value"] = {Trans(Token \ {"cr"}, "s_value", {}, {}),
       Trans({"cr"}, "s_almost_done", {"header_value"}, {})}
  /\ HeaderLine["s_almost_done"] = {Trans({"lf"}, "OK", {}, {})}
  /\ HeaderLine["s_header_end_r"] = {Trans({"lf"}, "HTTP_PARSE_HEADER_DONE", {}, {})}
  /\ DOMAIN HeaderLine = {"s_start", "s_name", "s_value_before", "s_value",
                          "s_almost_done", "s_header_end_r", "none"}
BY Kinds DEF HeaderLine

LEMMA Words ==
  /\ Word \subseteq Printed \ {":"} /\ Word \subseteq Token
  /\ "cr" \notin Printed /\ "sp" \in Token /\ ":" \in Printed /\ "cr" \in Token
  /\ "ctl" \notin Printed
BY DEF Word, Printed, Token, Letter, Upper, Lower, Digit

LEMMA HeaderEdges ==
  /\ \A w \in Word : Turn("s_start", w, "s_name", {}, {"header_key"})
  /\ \A w \in Word : Turn("s_name", w, "s_name", {}, {})
  /\ Turn("s_name", ":", "s_value_before", {"header_key"}, {})
  /\ Turn("s_value_before", "sp", "s_value_before", {}, {})
  /\ \A w \in Token \ {"sp"} : Turn("s_value_before", w, "s_value", {}, {"header_value"})
  /\ \A w \in Token \ {"cr"} : Turn("s_value", w, "s_value", {}, {})
  /\ Turn("s_value", "cr", "s_almost_done", {"header_value"}, {})
  /\ Turn("s_almost_done", "lf", "OK", {}, {})
  /\ Turn("s_start", "cr", "s_header_end_r", {}, {})
  /\ Turn("s_header_end_r", "lf", "HTTP_PARSE_HEADER_DONE", {}, {})
<1>1. /\ \A w \in Word : Turn("s_start", w, "s_name", {}, {"header_key"})
      /\ Turn("s_start", "cr", "s_header_end_r", {}, {})
  <2>1. PICK t, u : /\ HeaderLine["s_start"] = {t, u}
                    /\ Made(t, {"cr"}, "s_header_end_r", {}, {})
                    /\ Made(u, Printed, "s_name", {}, {"header_key"})
    BY HeaderEntries, Makes
  <2> QED BY <2>1, Words DEF Turn, Picks, Made
<1>2. /\ \A w \in Word : Turn("s_name", w, "s_name", {}, {})
      /\ Turn("s_name", ":", "s_value_before", {"header_key"}, {})
  <2>1. PICK t, u : /\ HeaderLine["s_name"] = {t, u}
                    /\ Made(t, Printed \ {":"}, "s_name", {}, {})
                    /\ Made(u, {":"}, "s_value_before", {"header_key"}, {})
    BY HeaderEntries, Makes
  <2> QED BY <2>1, Words DEF Turn, Picks, Made
<1>3. /\ Turn("s_value_before", "sp", "s_value_before", {}, {})
      /\ \A w \in Token \ {"sp"} : Turn("s_value_before", w, "s_value", {}, {"header_value"})
  <2>1. PICK t, u : /\ HeaderLine["s_value_before"] = {t, u}
                    /\ Made(t, {"sp"}, "s_value_before", {}, {})
                    /\ Made(u, Token \ {"sp"}, "s_value", {}, {"header_value"})
    BY HeaderEntries, Makes
  <2> QED BY <2>1 DEF Turn, Picks, Made
<1>4. /\ \A w \in Token \ {"cr"} : Turn("s_value", w, "s_value", {}, {})
      /\ Turn("s_value", "cr", "s_almost_done", {"header_value"}, {})
  <2>1. PICK t, u : /\ HeaderLine["s_value"] = {t, u}
                    /\ Made(t, Token \ {"cr"}, "s_value", {}, {})
                    /\ Made(u, {"cr"}, "s_almost_done", {"header_value"}, {})
    BY HeaderEntries, Makes
  <2> QED BY <2>1 DEF Turn, Picks, Made
<1>5. /\ Turn("s_almost_done", "lf", "OK", {}, {})
      /\ Turn("s_header_end_r", "lf", "HTTP_PARSE_HEADER_DONE", {}, {})
  <2>1. PICK t : /\ HeaderLine["s_almost_done"] = {t}
                 /\ Made(t, {"lf"}, "OK", {}, {})
    BY HeaderEntries, Makes
  <2>2. PICK u : /\ HeaderLine["s_header_end_r"] = {u}
                 /\ Made(u, {"lf"}, "HTTP_PARSE_HEADER_DONE", {}, {})
    BY HeaderEntries, Makes
  <2> QED BY <2>1, <2>2 DEF Turn, Picks, Made
<1> QED BY <1>1, <1>2, <1>3, <1>4, <1>5

(* The fields, with the name and the value of the header.                  *)
Fixed(base, kd, kl, vd, vl) ==
  [f \in Field |-> IF f = "header_key" THEN [data |-> kd, len |-> kl]
                   ELSE IF f = "header_value" THEN [data |-> vd, len |-> vl]
                   ELSE base[f]]
Wary(E, n, ref, j) ==
  j - 1 <= n =>
    /\ E[j - 1].rc = "AGAIN"
    /\ ref[j][1] \in Dam => E[j - 1].state \in {"s_start", "s_name"}

(* After i bytes of ref, of which those from a on are a header.            *)
Amid(E, n, ref, a, i, s, code, base, kd, kl, vd, vl) ==
  /\ i \in Nat
  /\ \A j \in (a + 1) .. i : Wary(E, n, ref, j)
  /\ i <= n => E[i] = [state |-> s, str |-> Fixed(base, kd, kl, vd, vl),
                       p |-> i + 1, rc |-> code]
ReadsOn(E, a, n, ref) ==
  \A j \in Nat \ {0} : a < j /\ j <= n => E[j] = Byte(HeaderLine, E[j - 1], ref[j][2])

LEMMA HeaderByte ==
  ASSUME NEW E, NEW n \in Nat, NEW ref, NEW a \in Nat, NEW i, NEW s, NEW base,
         NEW kd, NEW kl, NEW vd, NEW vl, NEW h, NEW b, NEW to, NEW e, NEW g,
         Amid(E, n, ref, a, i, s, "AGAIN", base, kd, kl, vd, vl), a <= i,
         ReadsOn(E, a, n, ref), ByteAt(ref, i + 1, h, b), Turn(s, b, to, e, g),
         h \in Dam => s \in {"s_start", "s_name"},
         s \in DOMAIN HeaderLine,
         e \subseteq {"header_key", "header_value"},
         g \subseteq {"header_key", "header_value"}
  PROVE  Amid(E, n, ref, a, i + 1, to,
              IF to \in DOMAIN HeaderLine THEN "AGAIN" ELSE to, base,
              IF "header_key" \in g THEN i + 1 ELSE kd,
              IF "header_key" \notin g /\ "header_key" \in e THEN (i + 1) - kd ELSE kl,
              IF "header_value" \in g THEN i + 1 ELSE vd,
              IF "header_value" \notin g /\ "header_value" \in e THEN (i + 1) - vd ELSE vl)
<1>0. i \in Nat /\ ref[i + 1] = <<h, b>> /\ i + 1 \in Nat \ {0}
      /\ (i + 1) - 1 = i /\ (i + 1) + 1 = i + 2 /\ (i + 1 <= n => i <= n) /\ a < i + 1
  BY DEF Amid, ByteAt
<1>1. Wary(E, n, ref, i + 1)
  <2> SUFFICES ASSUME i <= n PROVE Wary(E, n, ref, i + 1)
    BY <1>0 DEF Wary
  <2>1. E[i].rc = "AGAIN" /\ E[i].state = s
    BY DEF Amid
  <2>2. ref[i + 1][1] = h
    BY <1>0
  <2> QED BY <1>0, <2>1, <2>2 DEF Wary
<1>2. \A j \in (a + 1) .. (i + 1) : Wary(E, n, ref, j)
  <2>1. (a + 1) .. (i + 1) = ((a + 1) .. i) \cup {i + 1}
    BY <1>0
  <2> QED BY <1>1, <2>1 DEF Amid
<1> DEFINE kd2 == IF "header_key" \in g THEN i + 1 ELSE kd
           kl2 == IF "header_key" \notin g /\ "header_key" \in e THEN (i + 1) - kd ELSE kl
           vd2 == IF "header_value" \in g THEN i + 1 ELSE vd
           vl2 == IF "header_value" \notin g /\ "header_value" \in e THEN (i + 1) - vd ELSE vl
           end == IF to \in DOMAIN HeaderLine THEN "AGAIN" ELSE to
<1>3. ASSUME i + 1 <= n
      PROVE  E[i + 1] = [state |-> to, str |-> Fixed(base, kd2, kl2, vd2, vl2),
                         p |-> i + 2, rc |-> end]
  <2>1. PICK k : k = E[i]
    OBVIOUS
  <2>2. k = [state |-> s, str |-> Fixed(base, kd, kl, vd, vl), p |-> i + 1,
             rc |-> "AGAIN"]
    BY <1>0, <1>3, <2>1 DEF Amid
  <2>3. k.state = s /\ k.str = Fixed(base, kd, kl, vd, vl) /\ k.p = i + 1
        /\ k.rc = "AGAIN"
    BY <2>2
  <2>4. E[i + 1] = Byte(HeaderLine, k, b)
    <3>1. E[i + 1] = Byte(HeaderLine, E[(i + 1) - 1], ref[i + 1][2])
      BY <1>0, <1>3 DEF ReadsOn
    <3>2. ref[i + 1][2] = b
      BY <1>0
    <3> QED BY <1>0, <2>1, <3>1, <3>2, Zenon
  <2>5. PICK t : Picks(HeaderLine, s, b, t) /\ t.to = to /\ t.ends = e /\ t.begins = g
    BY DEF Turn
  <2>6. s # "s_version" /\ s # "s_method"
    BY HeaderEntries
  <2>7. ~TooLong(k) /\ Admits(k, t) /\ ~Connects(k)
    BY <2>3, <2>5, <2>6 DEF TooLong, Admits, Connects
  <2>8. E[i + 1] = Taken(HeaderLine, k, b, t)
    BY <2>3, <2>4, <2>5, <2>7, Moved
  <2>9. Marks(k, t) = Fixed(base, kd2, kl2, vd2, vl2)
    <3> SUFFICES ASSUME NEW f \in Field
                 PROVE  Marks(k, t)[f] = Fixed(base, kd2, kl2, vd2, vl2)[f]
      BY DEF Marks, Fixed
    <3>1. CASE f = "header_key"
      <4>1. k.str[f] = [data |-> kd, len |-> kl]
        BY <2>3, <3>1 DEF Fixed
      <4>2. Length(k, f) = (i + 1) - kd
        <5>1. k.str[f].data = kd
          BY <4>1
        <5>2. Length(k, f) = k.p - k.str[f].data
          BY DEF Length
        <5> QED BY <2>3, <5>1, <5>2, Zenon
      <4>3. Fixed(base, kd2, kl2, vd2, vl2)[f] = [data |-> kd2, len |-> kl2]
        BY <3>1 DEF Fixed
      <4>4. CASE f \in g
        BY <2>3, <2>5, <3>1, <4>1, <4>3, <4>4 DEF Marks
      <4>5. CASE f \notin g /\ f \in e
        <5>1. Marks(k, t)[f] = [k.str[f] EXCEPT !.len = Length(k, f)]
          BY <2>5, <4>5 DEF Marks
        <5>2. [k.str[f] EXCEPT !.len = Length(k, f)] = [data |-> kd, len |-> (i + 1) - kd]
          <6> PICK x : x = (i + 1) - kd
            OBVIOUS
          <6>1. [k.str[f] EXCEPT !.len = x] = [data |-> kd, len |-> x]
            BY <4>1
          <6> QED BY <4>2, <6>1
        <5>3. kd2 = kd /\ kl2 = (i + 1) - kd
          BY <3>1, <4>5
        <5> HIDE DEF kd2, kl2, vd2, vl2
        <5> QED BY <4>3, <5>1, <5>2, <5>3, Zenon
      <4>6. CASE f \notin g /\ f \notin e
        BY <2>3, <2>5, <3>1, <4>1, <4>3, <4>6 DEF Marks
      <4> QED BY <4>4, <4>5, <4>6
    <3>2. CASE f = "header_value"
      <4>1. k.str[f] = [data |-> vd, len |-> vl]
        BY <2>3, <3>2 DEF Fixed
      <4>2. Length(k, f) = (i + 1) - vd
        <5>1. k.str[f].data = vd
          BY <4>1
        <5>2. Length(k, f) = k.p - k.str[f].data
          BY DEF Length
        <5> QED BY <2>3, <5>1, <5>2, Zenon
      <4>3. Fixed(base, kd2, kl2, vd2, vl2)[f] = [data |-> vd2, len |-> vl2]
        BY <3>2 DEF Fixed
      <4>4. CASE f \in g
        BY <2>3, <2>5, <3>2, <4>1, <4>3, <4>4 DEF Marks
      <4>5. CASE f \notin g /\ f \in e
        <5>1. Marks(k, t)[f] = [k.str[f] EXCEPT !.len = Length(k, f)]
          BY <2>5, <4>5 DEF Marks
        <5>2. [k.str[f] EXCEPT !.len = Length(k, f)] = [data |-> vd, len |-> (i + 1) - vd]
          <6> PICK x : x = (i + 1) - vd
            OBVIOUS
          <6>1. [k.str[f] EXCEPT !.len = x] = [data |-> vd, len |-> x]
            BY <4>1
          <6> QED BY <4>2, <6>1
        <5>3. vd2 = vd /\ vl2 = (i + 1) - vd
          BY <3>2, <4>5
        <5> HIDE DEF kd2, kl2, vd2, vl2
        <5> QED BY <4>3, <5>1, <5>2, <5>3, Zenon
      <4>6. CASE f \notin g /\ f \notin e
        BY <2>3, <2>5, <3>2, <4>1, <4>3, <4>6 DEF Marks
      <4> QED BY <4>4, <4>5, <4>6
    <3>3. CASE f \notin {"header_key", "header_value"}
      BY <2>3, <2>5, <3>3 DEF Marks, Fixed
    <3> QED BY <3>1, <3>2, <3>3
  <2>10. k.p + 1 = i + 2
    BY <1>0, <2>3
  <2> HIDE DEF kd2, kl2, vd2, vl2
  <2> QED BY <2>5, <2>7, <2>8, <2>9, <2>10, Zenon DEF Taken
<1> QED BY <1>0, <1>2, <1>3 DEF Amid

(* The bytes of a header.                                                  *)
LEMMA NameBegins ==
  ASSUME NEW E, NEW n \in Nat, NEW ref, NEW a \in Nat, NEW i, NEW base,
         NEW kd, NEW kl, NEW vd, NEW vl, NEW w,
         Amid(E, n, ref, a, i, "s_start", "AGAIN", base, kd, kl, vd, vl), a <= i,
         ReadsOn(E, a, n, ref), ByteAt(ref, i + 1, "name", w), w \in Word
  PROVE  Amid(E, n, ref, a, i + 1, "s_name", "AGAIN", base, i + 1, kl, vd, vl)
<1>1. Turn("s_start", w, "s_name", {}, {"header_key"})
  BY HeaderEdges
<1>2. "s_start" \in DOMAIN HeaderLine /\ "s_name" \in DOMAIN HeaderLine
  BY HeaderEntries
<1>3. "name" \in Dam => "s_start" \in {"s_start", "s_name"}
  BY Blanks
<1>4. Amid(E, n, ref, a, i + 1, "s_name",
           IF "s_name" \in DOMAIN HeaderLine THEN "AGAIN" ELSE "s_name", base,
           IF "header_key" \in {"header_key"} THEN i + 1 ELSE kd,
           IF "header_key" \notin {"header_key"} /\ "header_key" \in {} THEN (i + 1) - kd ELSE kl,
           IF "header_value" \in {"header_key"} THEN i + 1 ELSE vd,
           IF "header_value" \notin {"header_key"} /\ "header_value" \in {} THEN (i + 1) - vd ELSE vl)
  BY <1>1, <1>2, <1>3, HeaderByte
<1> QED BY <1>2, <1>4

LEMMA NameGoesOn ==
  ASSUME NEW E, NEW n \in Nat, NEW ref, NEW a \in Nat, NEW i, NEW base,
         NEW kd, NEW kl, NEW vd, NEW vl, NEW w,
         Amid(E, n, ref, a, i, "s_name", "AGAIN", base, kd, kl, vd, vl), a <= i,
         ReadsOn(E, a, n, ref), ByteAt(ref, i + 1, "name", w), w \in Word
  PROVE  Amid(E, n, ref, a, i + 1, "s_name", "AGAIN", base, kd, kl, vd, vl)
<1>1. Turn("s_name", w, "s_name", {}, {})
  BY HeaderEdges
<1>2. "s_name" \in DOMAIN HeaderLine /\ "s_name" \in DOMAIN HeaderLine
  BY HeaderEntries
<1>3. "name" \in Dam => "s_name" \in {"s_start", "s_name"}
  BY Blanks
<1>4. Amid(E, n, ref, a, i + 1, "s_name",
           IF "s_name" \in DOMAIN HeaderLine THEN "AGAIN" ELSE "s_name", base,
           IF "header_key" \in {} THEN i + 1 ELSE kd,
           IF "header_key" \notin {} /\ "header_key" \in {} THEN (i + 1) - kd ELSE kl,
           IF "header_value" \in {} THEN i + 1 ELSE vd,
           IF "header_value" \notin {} /\ "header_value" \in {} THEN (i + 1) - vd ELSE vl)
  BY <1>1, <1>2, <1>3, HeaderByte
<1> QED BY <1>2, <1>4

LEMMA NameEnds ==
  ASSUME NEW E, NEW n \in Nat, NEW ref, NEW a \in Nat, NEW i, NEW base,
         NEW kd, NEW kl, NEW vd, NEW vl,
         Amid(E, n, ref, a, i, "s_name", "AGAIN", base, kd, kl, vd, vl), a <= i,
         ReadsOn(E, a, n, ref), ByteAt(ref, i + 1, Blank, ":")
  PROVE  Amid(E, n, ref, a, i + 1, "s_value_before", "AGAIN", base, kd, (i + 1) - kd, vd, vl)
<1>1. Turn("s_name", ":", "s_value_before", {"header_key"}, {})
  BY HeaderEdges
<1>2. "s_name" \in DOMAIN HeaderLine /\ "s_value_before" \in DOMAIN HeaderLine
  BY HeaderEntries
<1>3. Blank \in Dam => "s_name" \in {"s_start", "s_name"}
  BY Blanks
<1>4. Amid(E, n, ref, a, i + 1, "s_value_before",
           IF "s_value_before" \in DOMAIN HeaderLine THEN "AGAIN" ELSE "s_value_before", base,
           IF "header_key" \in {} THEN i + 1 ELSE kd,
           IF "header_key" \notin {} /\ "header_key" \in {"header_key"} THEN (i + 1) - kd ELSE kl,
           IF "header_value" \in {} THEN i + 1 ELSE vd,
           IF "header_value" \notin {} /\ "header_value" \in {"header_key"} THEN (i + 1) - vd ELSE vl)
  BY <1>1, <1>2, <1>3, HeaderByte
<1> QED BY <1>2, <1>4

LEMMA ValueWaits ==
  ASSUME NEW E, NEW n \in Nat, NEW ref, NEW a \in Nat, NEW i, NEW base,
         NEW kd, NEW kl, NEW vd, NEW vl,
         Amid(E, n, ref, a, i, "s_value_before", "AGAIN", base, kd, kl, vd, vl), a <= i,
         ReadsOn(E, a, n, ref), ByteAt(ref, i + 1, Blank, "sp")
  PROVE  Amid(E, n, ref, a, i + 1, "s_value_before", "AGAIN", base, kd, kl, vd, vl)
<1>1. Turn("s_value_before", "sp", "s_value_before", {}, {})
  BY HeaderEdges
<1>2. "s_value_before" \in DOMAIN HeaderLine /\ "s_value_before" \in DOMAIN HeaderLine
  BY HeaderEntries
<1>3. Blank \in Dam => "s_value_before" \in {"s_start", "s_name"}
  BY Blanks
<1>4. Amid(E, n, ref, a, i + 1, "s_value_before",
           IF "s_value_before" \in DOMAIN HeaderLine THEN "AGAIN" ELSE "s_value_before", base,
           IF "header_key" \in {} THEN i + 1 ELSE kd,
           IF "header_key" \notin {} /\ "header_key" \in {} THEN (i + 1) - kd ELSE kl,
           IF "header_value" \in {} THEN i + 1 ELSE vd,
           IF "header_value" \notin {} /\ "header_value" \in {} THEN (i + 1) - vd ELSE vl)
  BY <1>1, <1>2, <1>3, HeaderByte
<1> QED BY <1>2, <1>4

LEMMA ValueBegins ==
  ASSUME NEW E, NEW n \in Nat, NEW ref, NEW a \in Nat, NEW i, NEW base,
         NEW kd, NEW kl, NEW vd, NEW vl, NEW w,
         Amid(E, n, ref, a, i, "s_value_before", "AGAIN", base, kd, kl, vd, vl), a <= i,
         ReadsOn(E, a, n, ref), ByteAt(ref, i + 1, Blank, w), w \in Token \ {"sp"}
  PROVE  Amid(E, n, ref, a, i + 1, "s_value", "AGAIN", base, kd, kl, i + 1, vl)
<1>1. Turn("s_value_before", w, "s_value", {}, {"header_value"})
  BY HeaderEdges
<1>2. "s_value_before" \in DOMAIN HeaderLine /\ "s_value" \in DOMAIN HeaderLine
  BY HeaderEntries
<1>3. Blank \in Dam => "s_value_before" \in {"s_start", "s_name"}
  BY Blanks
<1>4. Amid(E, n, ref, a, i + 1, "s_value",
           IF "s_value" \in DOMAIN HeaderLine THEN "AGAIN" ELSE "s_value", base,
           IF "header_key" \in {"header_value"} THEN i + 1 ELSE kd,
           IF "header_key" \notin {"header_value"} /\ "header_key" \in {} THEN (i + 1) - kd ELSE kl,
           IF "header_value" \in {"header_value"} THEN i + 1 ELSE vd,
           IF "header_value" \notin {"header_value"} /\ "header_value" \in {} THEN (i + 1) - vd ELSE vl)
  BY <1>1, <1>2, <1>3, HeaderByte
<1> QED BY <1>2, <1>4

LEMMA ValueGoesOn ==
  ASSUME NEW E, NEW n \in Nat, NEW ref, NEW a \in Nat, NEW i, NEW base,
         NEW kd, NEW kl, NEW vd, NEW vl, NEW w,
         Amid(E, n, ref, a, i, "s_value", "AGAIN", base, kd, kl, vd, vl), a <= i,
         ReadsOn(E, a, n, ref), ByteAt(ref, i + 1, Blank, w), w \in Token \ {"cr"}
  PROVE  Amid(E, n, ref, a, i + 1, "s_value", "AGAIN", base, kd, kl, vd, vl)
<1>1. Turn("s_value", w, "s_value", {}, {})
  BY HeaderEdges
<1>2. "s_value" \in DOMAIN HeaderLine /\ "s_value" \in DOMAIN HeaderLine
  BY HeaderEntries
<1>3. Blank \in Dam => "s_value" \in {"s_start", "s_name"}
  BY Blanks
<1>4. Amid(E, n, ref, a, i + 1, "s_value",
           IF "s_value" \in DOMAIN HeaderLine THEN "AGAIN" ELSE "s_value", base,
           IF "header_key" \in {} THEN i + 1 ELSE kd,
           IF "header_key" \notin {} /\ "header_key" \in {} THEN (i + 1) - kd ELSE kl,
           IF "header_value" \in {} THEN i + 1 ELSE vd,
           IF "header_value" \notin {} /\ "header_value" \in {} THEN (i + 1) - vd ELSE vl)
  BY <1>1, <1>2, <1>3, HeaderByte
<1> QED BY <1>2, <1>4

LEMMA ValueEnds ==
  ASSUME NEW E, NEW n \in Nat, NEW ref, NEW a \in Nat, NEW i, NEW base,
         NEW kd, NEW kl, NEW vd, NEW vl,
         Amid(E, n, ref, a, i, "s_value", "AGAIN", base, kd, kl, vd, vl), a <= i,
         ReadsOn(E, a, n, ref), ByteAt(ref, i + 1, Blank, "cr")
  PROVE  Amid(E, n, ref, a, i + 1, "s_almost_done", "AGAIN", base, kd, kl, vd, (i + 1) - vd)
<1>1. Turn("s_value", "cr", "s_almost_done", {"header_value"}, {})
  BY HeaderEdges
<1>2. "s_value" \in DOMAIN HeaderLine /\ "s_almost_done" \in DOMAIN HeaderLine
  BY HeaderEntries
<1>3. Blank \in Dam => "s_value" \in {"s_start", "s_name"}
  BY Blanks
<1>4. Amid(E, n, ref, a, i + 1, "s_almost_done",
           IF "s_almost_done" \in DOMAIN HeaderLine THEN "AGAIN" ELSE "s_almost_done", base,
           IF "header_key" \in {} THEN i + 1 ELSE kd,
           IF "header_key" \notin {} /\ "header_key" \in {"header_value"} THEN (i + 1) - kd ELSE kl,
           IF "header_value" \in {} THEN i + 1 ELSE vd,
           IF "header_value" \notin {} /\ "header_value" \in {"header_value"} THEN (i + 1) - vd ELSE vl)
  BY <1>1, <1>2, <1>3, HeaderByte
<1> QED BY <1>2, <1>4

LEMMA HeaderEnds ==
  ASSUME NEW E, NEW n \in Nat, NEW ref, NEW a \in Nat, NEW i, NEW base,
         NEW kd, NEW kl, NEW vd, NEW vl,
         Amid(E, n, ref, a, i, "s_almost_done", "AGAIN", base, kd, kl, vd, vl), a <= i,
         ReadsOn(E, a, n, ref), ByteAt(ref, i + 1, Blank, "lf")
  PROVE  Amid(E, n, ref, a, i + 1, "OK", "OK", base, kd, kl, vd, vl)
<1>1. Turn("s_almost_done", "lf", "OK", {}, {})
  BY HeaderEdges
<1>2. "s_almost_done" \in DOMAIN HeaderLine /\ "OK" \notin DOMAIN HeaderLine
  BY HeaderEntries
<1>3. Blank \in Dam => "s_almost_done" \in {"s_start", "s_name"}
  BY Blanks
<1>4. Amid(E, n, ref, a, i + 1, "OK",
           IF "OK" \in DOMAIN HeaderLine THEN "AGAIN" ELSE "OK", base,
           IF "header_key" \in {} THEN i + 1 ELSE kd,
           IF "header_key" \notin {} /\ "header_key" \in {} THEN (i + 1) - kd ELSE kl,
           IF "header_value" \in {} THEN i + 1 ELSE vd,
           IF "header_value" \notin {} /\ "header_value" \in {} THEN (i + 1) - vd ELSE vl)
  BY <1>1, <1>2, <1>3, HeaderByte
<1> QED BY <1>2, <1>4

LEMMA HeadBegins ==
  ASSUME NEW E, NEW n \in Nat, NEW ref, NEW a \in Nat, NEW i, NEW base,
         NEW kd, NEW kl, NEW vd, NEW vl,
         Amid(E, n, ref, a, i, "s_start", "AGAIN", base, kd, kl, vd, vl), a <= i,
         ReadsOn(E, a, n, ref), ByteAt(ref, i + 1, Blank, "cr")
  PROVE  Amid(E, n, ref, a, i + 1, "s_header_end_r", "AGAIN", base, kd, kl, vd, vl)
<1>1. Turn("s_start", "cr", "s_header_end_r", {}, {})
  BY HeaderEdges
<1>2. "s_start" \in DOMAIN HeaderLine /\ "s_header_end_r" \in DOMAIN HeaderLine
  BY HeaderEntries
<1>3. Blank \in Dam => "s_start" \in {"s_start", "s_name"}
  BY Blanks
<1>4. Amid(E, n, ref, a, i + 1, "s_header_end_r",
           IF "s_header_end_r" \in DOMAIN HeaderLine THEN "AGAIN" ELSE "s_header_end_r", base,
           IF "header_key" \in {} THEN i + 1 ELSE kd,
           IF "header_key" \notin {} /\ "header_key" \in {} THEN (i + 1) - kd ELSE kl,
           IF "header_value" \in {} THEN i + 1 ELSE vd,
           IF "header_value" \notin {} /\ "header_value" \in {} THEN (i + 1) - vd ELSE vl)
  BY <1>1, <1>2, <1>3, HeaderByte
<1> QED BY <1>2, <1>4

LEMMA HeadEnds ==
  ASSUME NEW E, NEW n \in Nat, NEW ref, NEW a \in Nat, NEW i, NEW base,
         NEW kd, NEW kl, NEW vd, NEW vl,
         Amid(E, n, ref, a, i, "s_header_end_r", "AGAIN", base, kd, kl, vd, vl), a <= i,
         ReadsOn(E, a, n, ref), ByteAt(ref, i + 1, Blank, "lf")
  PROVE  Amid(E, n, ref, a, i + 1, "HTTP_PARSE_HEADER_DONE", "HTTP_PARSE_HEADER_DONE", base, kd, kl, vd, vl)
<1>1. Turn("s_header_end_r", "lf", "HTTP_PARSE_HEADER_DONE", {}, {})
  BY HeaderEdges
<1>2. "s_header_end_r" \in DOMAIN HeaderLine /\ "HTTP_PARSE_HEADER_DONE" \notin DOMAIN HeaderLine
  BY HeaderEntries
<1>3. Blank \in Dam => "s_header_end_r" \in {"s_start", "s_name"}
  BY Blanks
<1>4. Amid(E, n, ref, a, i + 1, "HTTP_PARSE_HEADER_DONE",
           IF "HTTP_PARSE_HEADER_DONE" \in DOMAIN HeaderLine THEN "AGAIN" ELSE "HTTP_PARSE_HEADER_DONE", base,
           IF "header_key" \in {} THEN i + 1 ELSE kd,
           IF "header_key" \notin {} /\ "header_key" \in {} THEN (i + 1) - kd ELSE kl,
           IF "header_value" \in {} THEN i + 1 ELSE vd,
           IF "header_value" \notin {} /\ "header_value" \in {} THEN (i + 1) - vd ELSE vl)
  BY <1>1, <1>2, <1>3, HeaderByte
<1> QED BY <1>2, <1>4

Told(ref, i, f, u, w) ==
  /\ \A j \in 1 .. Len(u) : ByteAt(ref, i + j, f, u[j])
  /\ Len(w) = Len(u) /\ Len(u) \in Nat

LEMMA SpellsIn ==
  ASSUME NEW ref, NEW i \in Nat, NEW f, NEW u \in Seq(Token),
         Spells(ref, i, In(f, u))
  PROVE  Told(ref, i, f, u, In(f, u))
<1>1. PICK w : w = In(f, u)
  OBVIOUS
<1>2. PICK S : S = Token
  OBVIOUS
<1>3. Len(w) = Len(u) /\ Len(u) \in Nat /\ \A j \in 1 .. Len(u) : w[j] = <<f, u[j]>>
  <2>1. u \in Seq(S)
    BY <1>2
  <2> QED BY <1>1, <2>1 DEF In
<1>4. \A j \in 1 .. Len(w) : ref[i + j] = w[j]
  BY <1>1 DEF Spells
<1> QED BY <1>1, <1>3, <1>4 DEF ByteAt, Told

(* Where the tokens of a header are, when they begin behind a.             *)
Laid(ref, a, name, value) ==
  /\ Len(name) \in Nat /\ Len(value) \in Nat
  /\ \A j \in 1 .. Len(name) : ByteAt(ref, a + j, "name", name[j])
  /\ ByteAt(ref, (a + Len(name)) + 1, Blank, ":")
  /\ \A j \in 1 .. Len(value) :
       ByteAt(ref, ((a + Len(name)) + 1) + j, Blank, value[j])
  /\ ByteAt(ref, (((a + Len(name)) + 1) + Len(value)) + 1, Blank, "cr")
  /\ ByteAt(ref, (((a + Len(name)) + 1) + Len(value)) + 1 + 1, Blank, "lf")
  /\ Len(Header(name, value)) = Len(name) + Len(value) + 3

LEMMA HeaderLaid ==
  ASSUME NEW ref, NEW a \in Nat, NEW name \in Seq(Token), NEW value \in Seq(Token),
         Spells(ref, a, Header(name, value))
  PROVE  Laid(ref, a, name, value)
<1>1. PICK u : u = <<":">> \o value \o CRLF
  OBVIOUS
<1>2. PICK S : S = Token
  OBVIOUS
<1>3. ":" \in S /\ "cr" \in S /\ "lf" \in S /\ name \in Seq(S) /\ value \in Seq(S)
  BY <1>2, Spelled
<1>4. /\ u \in Seq(S) /\ Len(u) = Len(value) + 3 /\ Len(value) \in Nat
      /\ u[1] = ":" /\ \A j \in 1 .. Len(value) : u[j + 1] = value[j]
      /\ u[Len(value) + 2] = "cr" /\ u[Len(value) + 3] = "lf"
  <2>1. PICK v : v = <<":">> \o value
    OBVIOUS
  <2>2. <<":">> \in Seq(S) /\ Len(<<":">>) = 1 /\ <<":">>[1] = ":"
    BY <1>3, Tuples
  <2>3. /\ v \in Seq(S) /\ Len(v) = Len(value) + 1 /\ Len(value) \in Nat
        /\ v[1] = ":" /\ \A j \in 1 .. Len(value) : v[j + 1] = value[j]
    BY <1>3, <2>1, <2>2
  <2>4. PICK c : c = <<"cr", "lf">>
    OBVIOUS
  <2>5. u = v \o c
    BY <1>1, <2>1, <2>4 DEF CRLF
  <2>6. c \in Seq(S) /\ Len(c) = 2 /\ c[1] = "cr" /\ c[2] = "lf"
    BY <1>3, <2>4
  <2>7. /\ u \in Seq(S) /\ Len(u) = Len(v) + 2
        /\ (\A j \in 1 .. Len(v) : u[j] = v[j])
        /\ u[Len(v) + 1] = "cr" /\ u[Len(v) + 2] = "lf"
    <3>1. ASSUME NEW p \in Seq(S), NEW q \in Seq(S), NEW r, r = p \o q,
                 Len(q) = 2, q[1] = "cr", q[2] = "lf"
          PROVE  /\ r \in Seq(S) /\ Len(r) = Len(p) + 2
                 /\ (\A j \in 1 .. Len(p) : r[j] = p[j])
                 /\ r[Len(p) + 1] = "cr" /\ r[Len(p) + 2] = "lf"
      <4>1. /\ p \o q \in Seq(S) /\ Len(p \o q) = Len(p) + Len(q) /\ Len(p) \in Nat
            /\ \A j \in 1 .. Len(p) + Len(q) :
                 (p \o q)[j] = IF j <= Len(p) THEN p[j] ELSE q[j - Len(p)]
        OBVIOUS
      <4>2. PICK m \in Nat : m = Len(p)
        BY <4>1
      <4>3. \A j \in 1 .. m + 2 : r[j] = IF j <= m THEN p[j] ELSE q[j - m]
        BY <3>1, <4>1, <4>2
      <4>4. (m + 1) - m = 1 /\ (m + 2) - m = 2 /\ ~(m + 1 <= m) /\ ~(m + 2 <= m)
            /\ m + 1 \in 1 .. m + 2 /\ m + 2 \in 1 .. m + 2
            /\ \A j \in 1 .. m : j \in 1 .. m + 2 /\ j <= m
        BY <4>2
      <4>5. r[m + 1] = "cr" /\ r[m + 2] = "lf" /\ \A j \in 1 .. m : r[j] = p[j]
        BY <3>1, <4>3, <4>4
      <4> QED BY <3>1, <4>1, <4>2, <4>5
    <3> HIDE DEF CRLF
    <3> QED BY <2>3, <2>5, <2>6, <3>1
  <2> QED BY <2>3, <2>7
<1>5. Header(name, value) = In("name", name) \o In(Blank, u)
  BY <1>1, Zenon DEF Header, Sep, Blank
<1>6. PICK x, y, h : x = In("name", name) /\ y = In(Blank, u) /\ h = Header(name, value)
  OBVIOUS
<1>7. x \in Bytes /\ y \in Bytes
  <2>1. "name" \in Tag /\ Blank \in Tag
    BY Spelled, Zenon DEF Blank
  <2>2. u \in Seq(Token)
    BY <1>2, <1>4
  <2> QED BY <1>6, <2>1, <2>2, InBytes
<1>8. Laid2(ref, a, x, y, h)
  <2>1. Cat2(h, x, y)
    BY <1>5, <1>6, Zenon DEF Cat2
  <2>2. Spells(ref, a, h)
    BY <1>6
  <2> QED BY <1>7, <2>1, <2>2, Split2
<1>9. Spells(ref, a, In("name", name))
  BY <1>6, <1>8 DEF Laid2
<1>10. /\ \A j \in 1 .. Len(name) : ByteAt(ref, a + j, "name", name[j])
       /\ Len(x) = Len(name) /\ Len(name) \in Nat
  <2>1. Told(ref, a, "name", name, In("name", name))
    BY <1>9, SpellsIn
  <2>2. Told(ref, a, "name", name, x)
    BY <1>6, <2>1
  <2> QED BY <2>2 DEF Told
<1>11. PICK l \in Nat : l = a + Len(name)
  BY <1>10
<1>12. Spells(ref, l, In(Blank, u))
  BY <1>6, <1>8, <1>10, <1>11 DEF Laid2
<1>13. /\ \A j \in 1 .. Len(u) : ByteAt(ref, l + j, Blank, u[j])
       /\ Len(y) = Len(u)
  <2>1. u \in Seq(Token)
    BY <1>2, <1>4
  <2>2. Told(ref, l, Blank, u, In(Blank, u))
    BY <1>12, <2>1, SpellsIn
  <2>3. Told(ref, l, Blank, u, y)
    BY <1>6, <2>2
  <2> QED BY <2>3 DEF Told
<1>14. Len(h) = Len(name) + Len(value) + 3
  BY <1>4, <1>8, <1>10, <1>13 DEF Laid2
<1>15. PICK v \in Nat : v = Len(value)
  BY <1>4
<1>16. /\ ByteAt(ref, l + 1, Blank, ":")
       /\ \A j \in 1 .. v : ByteAt(ref, (l + 1) + j, Blank, value[j])
       /\ ByteAt(ref, ((l + 1) + v) + 1, Blank, "cr")
       /\ ByteAt(ref, ((l + 1) + v) + 1 + 1, Blank, "lf")
  <2>1. ByteAt(ref, l + 1, Blank, ":")
    <3>1. 1 \in 1 .. Len(u)
      BY <1>4
    <3> QED BY <1>4, <1>13, <3>1
  <2>2. ASSUME NEW j \in 1 .. v PROVE ByteAt(ref, (l + 1) + j, Blank, value[j])
    <3>1. j + 1 \in 1 .. Len(u) /\ l + (j + 1) = (l + 1) + j
      BY <1>4, <1>15
    <3> QED BY <1>4, <1>13, <1>15, <3>1
  <2>3. ByteAt(ref, ((l + 1) + v) + 1, Blank, "cr")
    <3>1. v + 2 \in 1 .. Len(u) /\ l + (v + 2) = ((l + 1) + v) + 1
      BY <1>4, <1>15
    <3>2. ByteAt(ref, l + (v + 2), Blank, u[v + 2])
      BY <1>13, <3>1
    <3> QED BY <1>4, <1>15, <3>1, <3>2
  <2>4. ByteAt(ref, ((l + 1) + v) + 1 + 1, Blank, "lf")
    <3>1. v + 3 \in 1 .. Len(u) /\ l + (v + 3) = ((l + 1) + v) + 1 + 1
      BY <1>4, <1>15
    <3>2. ByteAt(ref, l + (v + 3), Blank, u[v + 3])
      BY <1>13, <3>1
    <3> QED BY <1>4, <1>15, <3>1, <3>2
  <2> QED BY <2>1, <2>2, <2>3, <2>4
<1> QED BY <1>4, <1>6, <1>10, <1>11, <1>14, <1>15, <1>16 DEF Laid

(* A name, then a value.                                                   *)
LEMMA NameRead ==
  ASSUME NEW E, NEW n \in Nat, NEW ref, NEW a \in Nat, NEW base,
         NEW kd, NEW kl, NEW vd, NEW vl, NEW name, NEW k \in 1 .. 2,
         \A j \in 1 .. k : name[j] \in Word /\ ByteAt(ref, a + j, "name", name[j]),
         ByteAt(ref, (a + k) + 1, Blank, ":"),
         Amid(E, n, ref, a, a, "s_start", "AGAIN", base, kd, kl, vd, vl),
         ReadsOn(E, a, n, ref)
  PROVE  Amid(E, n, ref, a, (a + k) + 1, "s_value_before", "AGAIN", base,
              a + 1, k, vd, vl)
<1>1. a <= a /\ a <= a + 1 /\ a <= a + 2 /\ 1 \in 1 .. k
      /\ (k = 2 => 2 \in 1 .. k) /\ a + 1 + 1 = a + 2 /\ a + 1 \in Nat
  OBVIOUS
<1>2. Amid(E, n, ref, a, a + 1, "s_name", "AGAIN", base, a + 1, kl, vd, vl)
  <2>1. ByteAt(ref, a + 1, "name", name[1]) /\ name[1] \in Word
    BY <1>1
  <2> QED BY <1>1, <2>1, NameBegins
<1>3. Amid(E, n, ref, a, a + k, "s_name", "AGAIN", base, a + 1, kl, vd, vl)
  <2>1. CASE k = 1
    BY <1>2, <2>1
  <2>2. CASE k = 2
    <3>1. ByteAt(ref, a + 1 + 1, "name", name[2]) /\ name[2] \in Word
      BY <1>1, <2>2
    <3>2. Amid(E, n, ref, a, a + 1 + 1, "s_name", "AGAIN", base, a + 1, kl, vd, vl)
      BY <1>1, <1>2, <3>1, NameGoesOn
    <3> QED BY <1>1, <2>2, <3>2
  <2> QED BY <2>1, <2>2
<1>4. PICK i \in Nat : i = a + k /\ a <= i /\ (i + 1) - (a + 1) = k
  OBVIOUS
<1>5. Amid(E, n, ref, a, i + 1, "s_value_before", "AGAIN", base,
           a + 1, (i + 1) - (a + 1), vd, vl)
  BY <1>3, <1>4, NameEnds
<1> QED BY <1>4, <1>5

LEMMA ValueRead ==
  ASSUME NEW E, NEW n \in Nat, NEW ref, NEW a \in Nat, NEW i \in Nat, a <= i,
         NEW base, NEW kd, NEW kl, NEW vd, NEW vl, NEW value,
         NEW o \in 0 .. 1, NEW c \in 1 .. 3,
         o = 1 => ByteAt(ref, i + 1, Blank, "sp"),
         value[o + 1] # "sp",
         \A j \in 1 .. c : /\ value[o + j] \in Token \ {"cr"}
                           /\ ByteAt(ref, (i + o) + j, Blank, value[o + j]),
         ByteAt(ref, (i + (o + c)) + 1, Blank, "cr"),
         ByteAt(ref, (i + (o + c)) + 1 + 1, Blank, "lf"),
         Amid(E, n, ref, a, i, "s_value_before", "AGAIN", base, kd, kl, vd, vl),
         ReadsOn(E, a, n, ref)
  PROVE  Amid(E, n, ref, a, i + (o + c + 2), "OK", "OK", base, kd, kl,
              (i + o) + 1, c)
<1>1. Amid(E, n, ref, a, i + o, "s_value_before", "AGAIN", base, kd, kl, vd, vl)
  <2>1. CASE o = 0
    BY <2>1
  <2>2. CASE o = 1
    BY <2>2, ValueWaits
  <2> QED BY <2>1, <2>2
<1>2. PICK b \in Nat : b = i + o /\ a <= b
  OBVIOUS
<1>3. Amid(E, n, ref, a, b + 1, "s_value", "AGAIN", base, kd, kl, b + 1, vl)
  <2>1. 1 \in 1 .. c
    OBVIOUS
  <2>2. ByteAt(ref, b + 1, Blank, value[o + 1]) /\ value[o + 1] \in Token \ {"sp"}
    BY <1>2, <2>1
  <2> QED BY <1>1, <1>2, <2>2, ValueBegins
<1>4. Amid(E, n, ref, a, b + c, "s_value", "AGAIN", base, kd, kl, b + 1, vl)
  <2>1. ASSUME c >= 2
        PROVE  Amid(E, n, ref, a, b + 1 + 1, "s_value", "AGAIN", base, kd, kl, b + 1, vl)
    <3>1. 2 \in 1 .. c /\ b + 2 = b + 1 + 1 /\ a <= b + 1
      BY <1>2, <2>1
    <3>2. ByteAt(ref, b + 1 + 1, Blank, value[o + 2]) /\ value[o + 2] \in Token \ {"cr"}
      BY <1>2, <3>1
    <3> QED BY <1>3, <3>1, <3>2, ValueGoesOn
  <2>2. ASSUME c = 3
        PROVE  Amid(E, n, ref, a, b + 1 + 1 + 1, "s_value", "AGAIN", base, kd, kl, b + 1, vl)
    <3>1. 3 \in 1 .. c /\ b + 3 = b + 1 + 1 + 1 /\ a <= b + 1 + 1
      BY <1>2, <2>2
    <3>2. ByteAt(ref, b + 1 + 1 + 1, Blank, value[o + 3]) /\ value[o + 3] \in Token \ {"cr"}
      BY <1>2, <3>1
    <3>3. Amid(E, n, ref, a, b + 1 + 1, "s_value", "AGAIN", base, kd, kl, b + 1, vl)
      BY <2>1, <2>2
    <3> QED BY <3>1, <3>2, <3>3, ValueGoesOn
  <2>3. CASE c = 1
    BY <1>3, <2>3
  <2>4. CASE c = 2
    BY <2>1, <2>4, Sums
  <2>5. CASE c = 3
    BY <2>2, <2>5, Sums
  <2> QED BY <2>3, <2>4, <2>5
<1>5. PICK d \in Nat : d = b + c /\ a <= d /\ d = i + (o + c) /\ (d + 1) - (b + 1) = c
  BY <1>2
<1>6. Amid(E, n, ref, a, d + 1, "s_almost_done", "AGAIN", base, kd, kl, b + 1,
           (d + 1) - (b + 1))
  <2>1. ByteAt(ref, d + 1, Blank, "cr") /\ Amid(E, n, ref, a, d, "s_value", "AGAIN", base, kd, kl, b + 1, vl)
    BY <1>4, <1>5
  <2> QED BY <1>5, <2>1, ValueEnds
<1>7. Amid(E, n, ref, a, d + 1, "s_almost_done", "AGAIN", base, kd, kl, b + 1, c)
  BY <1>5, <1>6
<1>8. Amid(E, n, ref, a, d + 1 + 1, "OK", "OK", base, kd, kl, b + 1, c)
  <2>1. ByteAt(ref, d + 1 + 1, Blank, "lf") /\ a <= d + 1
    BY <1>5
  <2> QED BY <1>7, <2>1, HeaderEnds
<1>9. d + 1 + 1 = i + (o + c + 2) /\ b + 1 = (i + o) + 1
  BY <1>2, <1>5
<1> QED BY <1>8, <1>9

(* The headers that have a value: c tokens, behind o blanks.               *)
Valued == {"length", "chunked", "close", "keep", "other"}
Names == [length |-> <<"Content-", "Length">>,
          chunked |-> <<"Transfer-", "Encoding">>, close |-> <<"Connection">>,
          keep |-> <<"Connection">>, other |-> <<"Other">>]
Values == [length |-> <<"sp", "1", "2">>, chunked |-> <<"sp", "chunked">>,
           close |-> <<"sp", "close">>, keep |-> <<"keep-", "alive">>,
           other |-> <<"sp", "a", ":", "b">>]
Skips == [length |-> 1, chunked |-> 1, close |-> 1, keep |-> 0, other |-> 1]
Widths == [length |-> 2, chunked |-> 1, close |-> 1, keep |-> 2, other |-> 3]
Shaped(name, value, o, c) ==
  /\ name \in Seq(Token) /\ Len(name) \in 1 .. 2
  /\ \A j \in 1 .. Len(name) : name[j] \in Word
  /\ value \in Seq(Token) /\ o \in 0 .. 1 /\ c \in 1 .. 3 /\ Len(value) = o + c
  /\ o = 1 => value[1] = "sp"
  /\ value[o + 1] # "sp"
  /\ \A j \in 1 .. c : value[o + j] \in Token \ {"cr"}

OfWords(name) == \/ \E a \in Word : name = <<a>>
                 \/ \E a, b \in Word : name = <<a, b>>
OfTokens(value, o) ==
  \/ \E x \in Token \ {"cr", "sp"} : value = <<"sp", x>> /\ o = 1
  \/ \E x, y \in Token \ {"cr", "sp"} : value = <<"sp", x, y>> /\ o = 1
  \/ \E x, y, z \in Token \ {"cr", "sp"} : value = <<"sp", x, y, z>> /\ o = 1
  \/ \E x, y \in Token \ {"cr", "sp"} : value = <<x, y>> /\ o = 0

LEMMA WordShaped ==
  ASSUME NEW name, NEW value, NEW o,
         OfWords(name), OfTokens(value, o)
  PROVE  Shaped(name, value, o, Len(value) - o)
<1>1. /\ name \in Seq(Token) /\ Len(name) \in 1 .. 2
      /\ \A j \in 1 .. Len(name) : name[j] \in Word
  <2> PICK S : S = Token
    OBVIOUS
  <2>1. Word \subseteq S
    BY Words
  <2>2. CASE \E a \in Word : name = <<a>>
    <3>1. PICK a \in Word : name = <<a>>
      BY <2>2
    <3>2. name \in Seq(S) /\ Len(name) = 1 /\ name[1] \in Word
      BY <2>1, <3>1
    <3> QED BY <3>2
  <2>3. CASE \E a, b \in Word : name = <<a, b>>
    <3>1. PICK a, b \in Word : name = <<a, b>>
      BY <2>3
    <3>2. name \in Seq(S) /\ Len(name) = 2 /\ name[1] \in Word /\ name[2] \in Word
      BY <2>1, <3>1
    <3>3. \A j \in 1 .. 2 : j = 1 \/ j = 2
      OBVIOUS
    <3> QED BY <3>2, <3>3
  <2> QED BY <2>2, <2>3 DEF OfWords
<1> PICK S : S = Token
  OBVIOUS
<1> PICK T : T = Token \ {"cr", "sp"}
  OBVIOUS
<1>2. "sp" \in S /\ "sp" # "cr" /\ T \subseteq S
  BY Words
<1>3. CASE \E x \in T : value = <<"sp", x>> /\ o = 1
  <2>1. PICK x \in T : value = <<"sp", x>> /\ o = 1
    BY <1>3
  <2>2. /\ value \in Seq(S) /\ Len(value) = 2 /\ value[1] = "sp" /\ value[2] = x
    BY <1>2, <2>1
  <2>3. \A j \in 1 .. 1 : j = 1
    OBVIOUS
  <2> QED BY <1>1, <2>1, <2>2, <2>3 DEF Shaped
<1>4. CASE \E x, y \in T : value = <<"sp", x, y>> /\ o = 1
  <2>1. PICK x, y \in T : value = <<"sp", x, y>> /\ o = 1
    BY <1>4
  <2>2. /\ value \in Seq(S) /\ Len(value) = 3 /\ value[1] = "sp" /\ value[2] = x
        /\ value[3] = y
    BY <1>2, <2>1
  <2>3. \A j \in 1 .. 2 : j = 1 \/ j = 2
    OBVIOUS
  <2> QED BY <1>1, <2>1, <2>2, <2>3 DEF Shaped
<1>5. CASE \E x, y, z \in T : value = <<"sp", x, y, z>> /\ o = 1
  <2>1. PICK x, y, z \in T : value = <<"sp", x, y, z>> /\ o = 1
    BY <1>5
  <2>2. /\ value \in Seq(S) /\ Len(value) = 4 /\ value[1] = "sp" /\ value[2] = x
        /\ value[3] = y /\ value[4] = z
    BY <1>2, <2>1
  <2>3. \A j \in 1 .. 3 : j = 1 \/ j = 2 \/ j = 3
    OBVIOUS
  <2> QED BY <1>1, <2>1, <2>2, <2>3 DEF Shaped
<1>6. CASE \E x, y \in T : value = <<x, y>> /\ o = 0
  <2>1. PICK x, y \in T : value = <<x, y>> /\ o = 0
    BY <1>6
  <2>2. /\ value \in Seq(S) /\ Len(value) = 2 /\ value[1] = x /\ value[2] = y
    BY <1>2, <2>1
  <2>3. \A j \in 1 .. 2 : j = 1 \/ j = 2
    OBVIOUS
  <2> QED BY <1>1, <2>1, <2>2, <2>3 DEF Shaped
<1> QED BY <1>3, <1>4, <1>5, <1>6 DEF OfTokens

LEMMA HeaderParts ==
  /\ DOMAIN Headers = Valued \cup {"bare"} /\ "bare" \notin Valued
  /\ \A x \in Valued : /\ Headers[x] = Header(Names[x], Values[x])
                       /\ Shaped(Names[x], Values[x], Skips[x], Widths[x])
<1>1. DOMAIN Headers = Valued \cup {"bare"} /\ "bare" \notin Valued
  BY DEF Headers, Valued
<1>2. \A x \in Valued : Headers[x] = Header(Names[x], Values[x])
  BY DEF Headers, Valued, Names, Values
<1> DEFINE T == Token \ {"cr", "sp"}
<1>3. /\ {"1", "2", "chunked", "close", "keep-", "alive", "a", ":", "b"} \subseteq T
      /\ {"Content-", "Length", "Transfer-", "Encoding", "Connection", "Other"}
           \subseteq Word
  BY DEF Token, Printed, Letter, Lower, Digit, Word
<1>4. ASSUME NEW x, OfWords(Names[x]), OfTokens(Values[x], Skips[x]),
             Len(Values[x]) - Skips[x] = Widths[x]
      PROVE  Shaped(Names[x], Values[x], Skips[x], Widths[x])
  BY <1>4, WordShaped
<1> HIDE DEF T
<1>5. Shaped(Names["length"], Values["length"], Skips["length"], Widths["length"])
  <2>1. /\ Names["length"] = <<"Content-", "Length">> /\ Values["length"] = <<"sp", "1", "2">>
        /\ Skips["length"] = 1 /\ Widths["length"] = 2 /\ "length" \in Valued
    BY DEF Names, Values, Skips, Widths, Valued
  <2>2. OfWords(Names["length"])
    BY <1>3, <2>1 DEF OfWords
  <2>3. OfTokens(Values["length"], Skips["length"])
    BY <1>3, <2>1 DEF OfTokens, T
  <2>4. Len(Values["length"]) - Skips["length"] = Widths["length"]
    BY <2>1
  <2> QED BY <1>4, <2>2, <2>3, <2>4
<1>6. Shaped(Names["chunked"], Values["chunked"], Skips["chunked"], Widths["chunked"])
  <2>1. /\ Names["chunked"] = <<"Transfer-", "Encoding">> /\ Values["chunked"] = <<"sp", "chunked">>
        /\ Skips["chunked"] = 1 /\ Widths["chunked"] = 1 /\ "chunked" \in Valued
    BY DEF Names, Values, Skips, Widths, Valued
  <2>2. OfWords(Names["chunked"])
    BY <1>3, <2>1 DEF OfWords
  <2>3. OfTokens(Values["chunked"], Skips["chunked"])
    BY <1>3, <2>1 DEF OfTokens, T
  <2>4. Len(Values["chunked"]) - Skips["chunked"] = Widths["chunked"]
    BY <2>1
  <2> QED BY <1>4, <2>2, <2>3, <2>4
<1>7. Shaped(Names["close"], Values["close"], Skips["close"], Widths["close"])
  <2>1. /\ Names["close"] = <<"Connection">> /\ Values["close"] = <<"sp", "close">>
        /\ Skips["close"] = 1 /\ Widths["close"] = 1 /\ "close" \in Valued
    BY DEF Names, Values, Skips, Widths, Valued
  <2>2. OfWords(Names["close"])
    BY <1>3, <2>1 DEF OfWords
  <2>3. OfTokens(Values["close"], Skips["close"])
    BY <1>3, <2>1 DEF OfTokens, T
  <2>4. Len(Values["close"]) - Skips["close"] = Widths["close"]
    BY <2>1
  <2> QED BY <1>4, <2>2, <2>3, <2>4
<1>8. Shaped(Names["keep"], Values["keep"], Skips["keep"], Widths["keep"])
  <2>1. /\ Names["keep"] = <<"Connection">> /\ Values["keep"] = <<"keep-", "alive">>
        /\ Skips["keep"] = 0 /\ Widths["keep"] = 2 /\ "keep" \in Valued
    BY DEF Names, Values, Skips, Widths, Valued
  <2>2. OfWords(Names["keep"])
    BY <1>3, <2>1 DEF OfWords
  <2>3. OfTokens(Values["keep"], Skips["keep"])
    BY <1>3, <2>1 DEF OfTokens, T
  <2>4. Len(Values["keep"]) - Skips["keep"] = Widths["keep"]
    BY <2>1
  <2> QED BY <1>4, <2>2, <2>3, <2>4
<1>9. Shaped(Names["other"], Values["other"], Skips["other"], Widths["other"])
  <2>1. /\ Names["other"] = <<"Other">> /\ Values["other"] = <<"sp", "a", ":", "b">>
        /\ Skips["other"] = 1 /\ Widths["other"] = 3 /\ "other" \in Valued
    BY DEF Names, Values, Skips, Widths, Valued
  <2>2. OfWords(Names["other"])
    BY <1>3, <2>1 DEF OfWords
  <2>3. OfTokens(Values["other"], Skips["other"])
    BY <1>3, <2>1 DEF OfTokens, T
  <2>4. Len(Values["other"]) - Skips["other"] = Widths["other"]
    BY <2>1
  <2> QED BY <1>4, <2>2, <2>3, <2>4
<1>10. \A x \in Valued : Shaped(Names[x], Values[x], Skips[x], Widths[x])
  BY <1>5, <1>6, <1>7, <1>8, <1>9 DEF Valued
<1> QED BY <1>1, <1>2, <1>10

(* A header is read to its end: its name and its value are kept.           *)
LEMMA HeaderRun ==
  ASSUME NEW E, NEW n \in Nat, NEW ref, NEW a \in Nat, NEW base,
         NEW kd, NEW kl, NEW vd, NEW vl, NEW name, NEW value, NEW o, NEW c,
         Shaped(name, value, o, c), Laid(ref, a, name, value),
         Amid(E, n, ref, a, a, "s_start", "AGAIN", base, kd, kl, vd, vl),
         ReadsOn(E, a, n, ref)
  PROVE  Amid(E, n, ref, a, a + Len(Header(name, value)), "OK", "OK", base,
              a + 1, Len(name), ((a + Len(name)) + 1 + o) + 1, c)
<1>1. PICK k \in 1 .. 2 : k = Len(name)
  BY DEF Shaped
<1>2. /\ \A j \in 1 .. k : name[j] \in Word /\ ByteAt(ref, a + j, "name", name[j])
      /\ ByteAt(ref, (a + k) + 1, Blank, ":")
  BY <1>1 DEF Shaped, Laid
<1>3. Amid(E, n, ref, a, (a + k) + 1, "s_value_before", "AGAIN", base, a + 1, k, vd, vl)
  BY <1>2, NameRead
<1>4. o \in 0 .. 1 /\ c \in 1 .. 3 /\ Len(value) = o + c
  BY DEF Shaped
<1>5. PICK i \in Nat : i = (a + k) + 1 /\ a <= i
  OBVIOUS
<1>6. /\ o = 1 => ByteAt(ref, i + 1, Blank, "sp")
      /\ value[o + 1] # "sp"
      /\ ByteAt(ref, (i + (o + c)) + 1, Blank, "cr")
      /\ ByteAt(ref, (i + (o + c)) + 1 + 1, Blank, "lf")
  <2>1. \A j \in 1 .. (o + c) : ByteAt(ref, i + j, Blank, value[j])
    BY <1>1, <1>4, <1>5 DEF Laid
  <2>2. o = 1 => 1 \in 1 .. (o + c) /\ value[1] = "sp"
    BY <1>4 DEF Shaped
  <2>3. ByteAt(ref, (i + (o + c)) + 1, Blank, "cr")
        /\ ByteAt(ref, (i + (o + c)) + 1 + 1, Blank, "lf")
    BY <1>1, <1>4, <1>5 DEF Laid
  <2> QED BY <2>1, <2>2, <2>3 DEF Shaped
<1>7. \A j \in 1 .. c : /\ value[o + j] \in Token \ {"cr"}
                        /\ ByteAt(ref, (i + o) + j, Blank, value[o + j])
  <2> SUFFICES ASSUME NEW j \in 1 .. c
               PROVE  /\ value[o + j] \in Token \ {"cr"}
                      /\ ByteAt(ref, (i + o) + j, Blank, value[o + j])
    OBVIOUS
  <2>1. o + j \in 1 .. (o + c) /\ i + (o + j) = (i + o) + j
    BY <1>4
  <2>2. ByteAt(ref, i + (o + j), Blank, value[o + j])
    BY <1>1, <1>4, <1>5, <2>1 DEF Laid
  <2> QED BY <2>1, <2>2 DEF Shaped
<1>8. Amid(E, n, ref, a, i, "s_value_before", "AGAIN", base, a + 1, k, vd, vl)
  BY <1>3, <1>5
<1>9. Amid(E, n, ref, a, i + (o + c + 2), "OK", "OK", base, a + 1, k,
           (i + o) + 1, c)
  BY <1>4, <1>5, <1>6, <1>7, <1>8, ValueRead
<1>10. Len(Header(name, value)) = k + (o + c) + 3
  BY <1>1, <1>4 DEF Laid
<1>11. i + (o + c + 2) = a + (k + (o + c) + 3) /\ (i + o) + 1 = ((a + k) + 1 + o) + 1
  BY <1>4, <1>5
<1>12. Amid(E, n, ref, a, a + (k + (o + c) + 3), "OK", "OK", base, a + 1, k,
            ((a + k) + 1 + o) + 1, c)
  BY <1>9, <1>11
<1> QED BY <1>1, <1>10, <1>12

LEMMA HeaderRead ==
  ASSUME NEW E, NEW n \in Nat, NEW ref, NEW a \in Nat, NEW base,
         NEW kd, NEW kl, NEW vd, NEW vl, NEW x \in Valued,
         Spells(ref, a, Headers[x]),
         Amid(E, n, ref, a, a, "s_start", "AGAIN", base, kd, kl, vd, vl),
         ReadsOn(E, a, n, ref)
  PROVE  Amid(E, n, ref, a, a + Len(Headers[x]), "OK", "OK", base,
              a + 1, Len(Names[x]), ((a + Len(Names[x])) + 1 + Skips[x]) + 1,
              Widths[x])
<1>1. PICK name, value, o, c :
        name = Names[x] /\ value = Values[x] /\ o = Skips[x] /\ c = Widths[x]
  OBVIOUS
<1>2. Shaped(name, value, o, c) /\ Headers[x] = Header(name, value)
  BY <1>1, HeaderParts
<1>3. Laid(ref, a, name, value)
  <2>1. name \in Seq(Token) /\ value \in Seq(Token)
    BY <1>2 DEF Shaped
  <2> QED BY <1>2, <2>1, HeaderLaid
<1>4. Amid(E, n, ref, a, a + Len(Header(name, value)), "OK", "OK", base,
           a + 1, Len(name), ((a + Len(name)) + 1 + o) + 1, c)
  BY <1>2, <1>3, HeaderRun
<1> QED BY <1>1, <1>2, <1>4

(* What a header that was read says.                                       *)
Lies(ref, a, l, f, u) == /\ u = [j \in 1 .. l |-> u[j]]
                         /\ \A j \in 1 .. l : ByteAt(ref, a + j, f, u[j])
LEMMA ContentsAre ==
  ASSUME NEW ref, NEW n \in Nat, Agrees(n, ref), NEW a \in Nat, NEW l \in Nat,
         a + l <= n, NEW f, NEW u, Lies(ref, a, l, f, u)
  PROVE  Contents([data |-> a + 1, len |-> l]) = u
<1>1. PICK s : s = [data |-> a + 1, len |-> l]
  OBVIOUS
<1>2. s.data = a + 1 /\ s.len = l
  BY <1>1
<1>3. ASSUME NEW j \in 1 .. l PROVE Stream[s.data + j - 1][2] = u[j]
  <2>1. s.data + j - 1 = a + j /\ a + j \in Nat \ {0} /\ a + j <= n
    BY <1>2
  <2>2. Stream[a + j] = <<f, u[j]>>
    BY <2>1 DEF Agrees, ByteAt, Lies
  <2> QED BY <2>1, <2>2
<1>4. Contents(s) = [j \in 1 .. l |-> u[j]]
  BY <1>2, <1>3 DEF Contents
<1> QED BY <1>1, <1>4 DEF Lies

LEMMA Entire ==
  ASSUME NEW S, NEW u \in Seq(S)
  PROVE  u = [j \in 1 .. Len(u) |-> u[j]] /\ Len(u) \in Nat
OBVIOUS

(* It is header x.                                                         *)
Says(k, x) ==
  /\ Is(k, <<"Content-", "Length">>) <=> x = "length"
  /\ Is(k, <<"Transfer-", "Encoding">>) <=> x = "chunked"
  /\ Is(k, <<"Connection">>) <=> x \in {"close", "keep"}
  /\ x = "length" => Contents(k.str["header_value"]) = <<"1", "2">>
  /\ k.str["header_value"] # NoString
  /\ x = "keep" => k.str["header_value"].len > CloseLen
  /\ x = "close" => ~(k.str["header_value"].len > CloseLen)

LEMMA NamesDiffer ==
  ASSUME NEW x \in Valued
  PROVE  /\ Names[x] = <<"Content-", "Length">> <=> x = "length"
         /\ Names[x] = <<"Transfer-", "Encoding">> <=> x = "chunked"
         /\ Names[x] = <<"Connection">> <=> x \in {"close", "keep"}
<1>1. /\ Names["length"] = <<"Content-", "Length">>
      /\ Names["chunked"] = <<"Transfer-", "Encoding">>
      /\ Names["close"] = <<"Connection">> /\ Names["keep"] = <<"Connection">>
      /\ Names["other"] = <<"Other">>
  BY DEF Names
<1>2. PICK A, B, C, D : /\ A = <<"Content-", "Length">>
                        /\ B = <<"Transfer-", "Encoding">>
                        /\ C = <<"Connection">> /\ D = <<"Other">>
  OBVIOUS
<1>3. A # B /\ A # C /\ A # D /\ B # C /\ B # D /\ C # D
  <2>1. A[1] = "Content-" /\ B[1] = "Transfer-" /\ C[1] = "Connection" /\ D[1] = "Other"
    BY <1>2
  <2> QED BY <2>1
<1>4. /\ Names["length"] = A /\ Names["chunked"] = B /\ Names["close"] = C
      /\ Names["keep"] = C /\ Names["other"] = D
  BY <1>1, <1>2
<1>5. /\ Names[x] = A <=> x = "length"
      /\ Names[x] = B <=> x = "chunked"
      /\ Names[x] = C <=> x \in {"close", "keep"}
  BY <1>3, <1>4 DEF Valued
<1> QED BY <1>2, <1>5

LEMMA HeaderSays ==
  ASSUME NEW ref, NEW a \in Nat, NEW x \in Valued, NEW n \in Nat, NEW k, NEW base,
         NEW z, z = a + Len(Headers[x]), z <= n, Agrees(n, ref),
         Spells(ref, a, Headers[x]),
         k.str = Fixed(base, a + 1, Len(Names[x]),
                       ((a + Len(Names[x])) + 1 + Skips[x]) + 1, Widths[x])
  PROVE  Says(k, x)
<1>1. PICK name, value, o, c :
        name = Names[x] /\ value = Values[x] /\ o = Skips[x] /\ c = Widths[x]
  OBVIOUS
<1>2. Shaped(name, value, o, c) /\ Headers[x] = Header(name, value)
  BY <1>1, HeaderParts
<1>3. Laid(ref, a, name, value)
  <2>1. name \in Seq(Token) /\ value \in Seq(Token)
    BY <1>2 DEF Shaped
  <2> QED BY <1>2, <2>1, HeaderLaid
<1>4. PICK m \in 1 .. 2 : m = Len(name)
  BY <1>2 DEF Shaped
<1>5. o \in 0 .. 1 /\ c \in 1 .. 3 /\ Len(value) = o + c
  BY <1>2 DEF Shaped
<1>6. a + m + (o + c) + 3 <= n
  <2>1. Len(Headers[x]) = m + (o + c) + 3
    BY <1>2, <1>3, <1>4, <1>5 DEF Laid
  <2> QED BY <1>4, <1>5, <2>1
<1>7. /\ k.str["header_key"] = [data |-> a + 1, len |-> m]
      /\ k.str["header_value"] = [data |-> ((a + m) + 1 + o) + 1, len |-> c]
  BY <1>1, <1>4 DEF Fixed, Field
<1>8. Contents(k.str["header_key"]) = name
  <2>1. \A j \in 1 .. m : ByteAt(ref, a + j, "name", name[j])
    BY <1>3, <1>4 DEF Laid
  <2>4. name = [j \in 1 .. m |-> name[j]]
    BY <1>2, <1>4, Entire DEF Shaped
  <2>5. m \in Nat /\ a + m <= n
    BY <1>5, <1>6
  <2>6. Lies(ref, a, m, "name", name)
    BY <2>1, <2>4 DEF Lies
  <2>7. Contents([data |-> a + 1, len |-> m]) = name
    BY <2>5, <2>6, ContentsAre
  <2> QED BY <1>7, <2>7
<1>9. ASSUME x = "length" PROVE Contents(k.str["header_value"]) = <<"1", "2">>
  <2>1. o = 1 /\ c = 2 /\ value = <<"sp", "1", "2">>
    BY <1>1, <1>9 DEF Skips, Widths, Values
  <2>2. PICK u : u = <<"1", "2">>
    OBVIOUS
  <2>3. PICK b \in Nat : b = (a + m) + 1 + o /\ b + 2 <= n
    BY <1>4, <1>5, <1>6, <2>1
  <2>4. value[2] = "1" /\ value[3] = "2" /\ u[1] = "1" /\ u[2] = "2"
        /\ u = [j \in 1 .. 2 |-> u[j]]
    BY <2>1, <2>2
  <2>5. \A j \in 1 .. 3 : ByteAt(ref, ((a + m) + 1) + j, Blank, value[j])
    BY <1>3, <1>4, <1>5, <2>1 DEF Laid
  <2>6. b + 1 = ((a + m) + 1) + 2 /\ b + 2 = ((a + m) + 1) + 3
        /\ 2 \in 1 .. 3 /\ 3 \in 1 .. 3 /\ \A j \in 1 .. 2 : j = 1 \/ j = 2
    BY <2>1, <2>3
  <2>7. ByteAt(ref, b + 1, Blank, u[1]) /\ ByteAt(ref, b + 2, Blank, u[2])
    BY <2>4, <2>5, <2>6
  <2>8. Lies(ref, b, 2, Blank, u)
    BY <2>4, <2>6, <2>7 DEF Lies
  <2>9. 2 \in Nat
    OBVIOUS
  <2>10. Contents([data |-> b + 1, len |-> 2]) = u
    BY <2>3, <2>8, <2>9, ContentsAre
  <2>11. k.str["header_value"] = [data |-> b + 1, len |-> 2]
    BY <1>7, <2>1, <2>3
  <2> QED BY <2>2, <2>10, <2>11
<1>10. k.str["header_value"].len = c
  BY <1>7
<1>11. k.str["header_value"] # NoString
  BY <1>5, <1>10 DEF NoString
<1>12. x = "keep" => k.str["header_value"].len > CloseLen
  BY <1>1, <1>10, LimitsAssumption DEF Widths
<1>13. x = "close" => ~(k.str["header_value"].len > CloseLen)
  BY <1>1, <1>10, LimitsAssumption DEF Widths
<1>14. \A w : Is(k, w) <=> Names[x] = w
  BY <1>1, <1>8 DEF Is
<1> QED BY <1>9, <1>11, <1>12, <1>13, <1>14, NamesDiffer DEF Says

-----------------------------------------------------------------------------
(* What is known when the headers of a set were read.                      *)
Means(r, h, done) ==
  /\ h.keepalive <=> "keep" \in done
  /\ IF "length" \in done
       THEN /\ h.content_length # NoString
            /\ Contents(h.content_length) = <<"1", "2">>
       ELSE h.content_length = NoString
  /\ r = "request" => /\ h.transfer_encoding <=> "chunked" \in done
                      /\ h.body_type = "NULL"
  /\ r = "response" => h.body_type = CASE "length" \in done -> "CONTENT"
                                       [] "chunked" \in done -> "CHUNK"
                                       [] OTHER -> "NULL"
LEMMA MeansNext ==
  ASSUME NEW r \in {"request", "response"}, NEW done, NEW k, NEW x \in Valued,
         hd \in HeadState, k.str \in Strs,
         Means(r, hd, done), Says(k, x), Consistent(done \cup {x}), NEW h,
         h = IF r = "request" THEN RequestHeader(k) ELSE ResponseHeader(k)
  PROVE  Means(r, h, done \cup {x})
<1>1. PICK v, b1, b2, b3, c : /\ v = k.str["header_value"]
        /\ b1 = Is(k, <<"Content-", "Length">>)
        /\ b2 = Is(k, <<"Transfer-", "Encoding">>)
        /\ b3 = Is(k, <<"Connection">>) /\ c = (v.len > CloseLen)
  OBVIOUS
<1>0. /\ b1 \in BOOLEAN /\ b2 \in BOOLEAN /\ b3 \in BOOLEAN /\ c \in BOOLEAN
  <2>1. v.len \in Nat
    BY <1>1 DEF Strs, Place, Field
  <2> QED BY <1>1, <2>1, Limits DEF Is
<1>2. /\ b1 \in BOOLEAN /\ b2 \in BOOLEAN /\ b3 \in BOOLEAN /\ c \in BOOLEAN
      /\ b1 <=> x = "length"
      /\ b2 <=> x = "chunked"
      /\ b3 <=> x \in {"close", "keep"}
      /\ x = "length" => Contents(v) = <<"1", "2">>
      /\ v # NoString /\ (x = "keep" => c) /\ (x = "close" => ~c)
  BY <1>0, <1>1 DEF Says
<1>3. hd.keepalive \in BOOLEAN /\ hd.transfer_encoding \in BOOLEAN
  BY DEF HeadState
<1>4. CASE r = "request"
  <2>1. /\ h.keepalive = IF b3 THEN c ELSE hd.keepalive
        /\ h.content_length = IF b1 THEN v ELSE hd.content_length
        /\ h.transfer_encoding = (hd.transfer_encoding \/ b2)
        /\ h.body_type = hd.body_type
    BY <1>1, <1>2, <1>4 DEF RequestHeader, HeadState
  <2>2. h.keepalive <=> "keep" \in done \cup {x}
    BY <1>2, <1>3, <2>1 DEF Means, Consistent
  <2>3. IF "length" \in done \cup {x}
          THEN /\ h.content_length # NoString
               /\ Contents(h.content_length) = <<"1", "2">>
          ELSE h.content_length = NoString
    BY <1>2, <2>1 DEF Means
  <2>4. /\ h.transfer_encoding <=> "chunked" \in done \cup {x}
        /\ h.body_type = "NULL"
    BY <1>2, <1>3, <1>4, <2>1 DEF Means
  <2> QED BY <1>4, <2>2, <2>3, <2>4 DEF Means
<1>5. CASE r = "response"
  <2>1. /\ h.keepalive = IF b3 THEN c ELSE hd.keepalive
        /\ h.content_length = IF b1 THEN v ELSE hd.content_length
        /\ h.body_type = IF b1 THEN "CONTENT" ELSE IF b2 THEN "CHUNK" ELSE hd.body_type
    BY <1>1, <1>2, <1>5 DEF ResponseHeader, HeadState
  <2>2. h.keepalive <=> "keep" \in done \cup {x}
    BY <1>2, <1>3, <2>1 DEF Means, Consistent
  <2>3. IF "length" \in done \cup {x}
          THEN /\ h.content_length # NoString
               /\ Contents(h.content_length) = <<"1", "2">>
          ELSE h.content_length = NoString
    BY <1>2, <2>1 DEF Means
  <2>4. h.body_type = CASE "length" \in done \cup {x} -> "CONTENT"
                        [] "chunked" \in done \cup {x} -> "CHUNK"
                        [] OTHER -> "NULL"
    BY <1>2, <1>5, <2>1 DEF Means, Consistent
  <2> QED BY <1>5, <2>2, <2>3, <2>4 DEF Means
<1> QED BY <1>4, <1>5

-----------------------------------------------------------------------------
(* What ends a section of a head: a line, a header, or the head.           *)

(* States in which a byte that is in no head is refused.                   *)
Deaf(table, s) == s \in DOMAIN table => \A t \in table[s] : "ctl" \notin t.on

LEMMA Unprinted ==
  /\ "ctl" \notin Upper /\ "ctl" \notin Letter /\ "ctl" \notin Digit
  /\ "ctl" \notin Printed
  /\ \A S : "ctl" \notin S \cup {} <=> "ctl" \notin S
BY DEF Upper, Letter, Lower, Digit, Printed, Word

LEMMA RequestDeaf == \A s \in Refusing : Deaf(RequestLine, s)
<1> SUFFICES ASSUME NEW s \in Refusing, s \in DOMAIN RequestLine,
                    NEW t \in RequestLine[s]
             PROVE  "ctl" \notin t.on
  BY DEF Deaf
<1>1. s \in {"s_method", "s_colon", "s_port", "s_after_uri", "s_version"}
  BY RequestStates DEF Refusing
<1>2. CASE s = "s_method"
  <2>1. PICK u, v : /\ RequestLine["s_method"] = {u, v}
          /\ Made(u, Upper, "s_method", {}, {})
          /\ Made(v, {"sp"}, "s_after_method", {"method"}, {})
    BY RequestEntries, Makes
  <2> QED BY <1>2, <2>1, Unprinted DEF Made
<1>3. CASE s = "s_colon"
  <2>1. PICK u : /\ RequestLine["s_colon"] = {u}
                 /\ Made(u, Digit, "s_port", {}, {"port"})
    BY RequestEntries, Makes
  <2> QED BY <1>3, <2>1, Unprinted DEF Made
<1>4. CASE s = "s_port"
  <2>1. PICK u, v, w : /\ RequestLine["s_port"] = {u, v, w}
          /\ Made(u, Digit, "s_port", {}, {})
          /\ Made(v, {"sp"}, "s_after_uri", {"port"}, {})
          /\ Made(w, {"/"}, "s_uri", {"port"}, {"uri"})
    BY RequestEntries, Makes
  <2> QED BY <1>4, <2>1, Unprinted DEF Made
<1>5. CASE s = "s_after_uri"
  <2>1. PICK u, v : /\ RequestLine["s_after_uri"] = {u, v}
          /\ Made(u, {"sp"}, "s_after_uri", {}, {})
          /\ Made(v, Letter, "s_version", {}, {"http_version"})
    BY RequestEntries, Makes
  <2> QED BY <1>5, <2>1, Unprinted DEF Made
<1>6. CASE s = "s_version"
  <2>1. PICK u, v : /\ RequestLine["s_version"] = {u, v}
          /\ Made(u, Letter \cup Digit \cup {"/", "."}, "s_version", {}, {})
          /\ Made(v, {"cr"}, "s_end", {"http_version"}, {})
    BY RequestEntries, Makes
  <2> QED BY <1>6, <2>1, Unprinted DEF Made
<1> QED BY <1>1, <1>2, <1>3, <1>4, <1>5, <1>6

LEMMA ResponseDeaf == \A s \in Refusing : Deaf(ResponseLine, s)
<1> SUFFICES ASSUME NEW s \in Refusing, s \in DOMAIN ResponseLine,
                    NEW t \in ResponseLine[s]
             PROVE  "ctl" \notin t.on
  BY DEF Deaf
<1>1. s \in {"http_slash", "version", "code_start", "code"}
  BY ResponseStates DEF Refusing
<1>2. CASE s = "http_slash"
  <2>1. PICK u : /\ ResponseLine["http_slash"] = {u}
          /\ Made(u, Digit \cup {"."}, "version", {}, {"http_version"})
    BY ResponseEntries, Makes
  <2> QED BY <1>2, <2>1, Unprinted DEF Made
<1>3. CASE s = "version"
  <2>1. PICK u, v : /\ ResponseLine["version"] = {u, v}
          /\ Made(u, Digit \cup {"."}, "version", {}, {})
          /\ Made(v, {"sp"}, "code_start", {"http_version"}, {})
    BY ResponseEntries, Makes
  <2> QED BY <1>3, <2>1, Unprinted DEF Made
<1>4. CASE s = "code_start"
  <2>1. PICK u : /\ ResponseLine["code_start"] = {u}
          /\ Made(u, Digit, "code", {}, {"http_code"})
    BY ResponseEntries, Makes
  <2> QED BY <1>4, <2>1, Unprinted DEF Made
<1>5. CASE s = "code"
  <2>1. PICK u, v : /\ ResponseLine["code"] = {u, v}
          /\ Made(u, Digit, "code", {}, {})
          /\ Made(v, {"sp"}, "before_string", {"http_code"}, {})
    BY ResponseEntries, Makes
  <2> QED BY <1>5, <2>1, Unprinted DEF Made
<1> QED BY <1>1, <1>2, <1>3, <1>4, <1>5

LEMMA HeaderDeaf == Deaf(HeaderLine, "s_start") /\ Deaf(HeaderLine, "s_name")
<1>1. PICK u, v : /\ HeaderLine["s_start"] = {u, v}
                  /\ Made(u, {"cr"}, "s_header_end_r", {}, {})
                  /\ Made(v, Printed, "s_name", {}, {"header_key"})
  BY HeaderEntries, Makes
<1>2. PICK w, x : /\ HeaderLine["s_name"] = {w, x}
                  /\ Made(w, Printed \ {":"}, "s_name", {}, {})
                  /\ Made(x, {":"}, "s_value_before", {"header_key"}, {})
  BY HeaderEntries, Makes
<1> QED BY <1>1, <1>2, Unprinted DEF Made, Deaf

(* The byte at j is one of those that are damaged.                         *)
Damageable(ref, j) ==
  j > 1 /\ ref[j][1] \in Dam /\ (ref[j][1] = "method" => ref[j - 1][1] = "method")

(* The bytes of ref from a on are parsed, up to n.                         *)
Runs(table, E, a, n, ref, k0) ==
  /\ E[a] = k0
  /\ \A j \in Nat \ {0} : a < j /\ j <= n => E[j] = Byte(table, E[j - 1], ref[j][2])
Alert(table, E, n, ref, j) ==
  j - 1 <= n =>
    /\ E[j - 1].rc = "AGAIN"
    /\ Damageable(ref, j) => Deaf(table, E[j - 1].state)

(* A parser wants more until z, where it has R.                            *)
Sure(table, E, ref, a, z, n, R) ==
  /\ z \in Nat
  /\ \A j \in (a + 1) .. z : Alert(table, E, n, ref, j)
  /\ z <= n => E[z] = R
Leads(table, ref, a, z, good, k0, R) ==
  \A n \in Nat : n <= good =>
    \A E : Runs(table, E, a, n, ref, k0) => Sure(table, E, ref, a, z, n, R)

LineOf(r) == IF r = "request" THEN RequestLine ELSE ResponseLine
LinesOf(r) == IF r = "request" THEN RequestLines ELSE StatusLines
First(r) == IF r = "request" THEN "s_start" ELSE "start"
LineStart(r) == [state |-> First(r), str |-> [f \in Field |-> NoString], p |-> 1,
                 rc |-> "AGAIN"]
LineEnd(ref, l) == [state |-> "DONE", str |-> Open(ref, l, Blank), p |-> l + 1,
                    rc |-> "DONE"]

LEMMA LineEnded ==
  ASSUME NEW r \in {"request", "response"}, NEW line \in LinesOf(r),
         NEW ref, Spells(ref, 0, line), NEW n \in Nat, Agrees(n, ref),
         NEW E, Runs(LineOf(r), E, 0, n, ref, LineStart(r))
  PROVE  Ended(E, n, ref, Len(line))
<1>1. E[0] = LineStart(r) /\ Reads(E, LineOf(r), n, ref)
  BY DEF Runs, Reads
<1>2. CASE r = "request"
  <2>1. Start(E, n, ref, "s_start")
    BY <1>1, <1>2 DEF Start, LineStart, First
  <2>2. line \in RequestLines /\ Reads(E, RequestLine, n, ref)
    BY <1>1, <1>2 DEF LineOf, LinesOf
  <2> QED BY <2>1, <2>2, RequestRead
<1>3. CASE r = "response"
  <2>1. Start(E, n, ref, "start")
    BY <1>1, <1>3 DEF Start, LineStart, First
  <2>2. line \in StatusLines /\ Reads(E, ResponseLine, n, ref)
    BY <1>1, <1>3 DEF LineOf, LinesOf
  <2> QED BY <2>1, <2>2, StatusRead
<1> QED BY <1>2, <1>3

LEMMA LineLeads ==
  ASSUME NEW r \in {"request", "response"}, NEW line \in LinesOf(r),
         NEW ref, Spells(ref, 0, line), NEW good \in Nat, Agrees(good, ref)
  PROVE  Leads(LineOf(r), ref, 0, Len(line), good, LineStart(r),
               LineEnd(ref, Len(line)))
<1> SUFFICES ASSUME NEW n \in Nat, n <= good, NEW E,
                    Runs(LineOf(r), E, 0, n, ref, LineStart(r))
             PROVE  Sure(LineOf(r), E, ref, 0, Len(line), n, LineEnd(ref, Len(line)))
  BY DEF Leads
<1>1. Agrees(n, ref)
  BY DEF Agrees
<1>2. PICK l : l = Len(line)
  OBVIOUS
<1>3. Ended(E, n, ref, l)
  BY <1>1, <1>2, LineEnded
<1>4. \A s \in Refusing : Deaf(LineOf(r), s)
  BY RequestDeaf, ResponseDeaf DEF LineOf
<1>5. \A j \in (0 + 1) .. l : Alert(LineOf(r), E, n, ref, j)
  <2> SUFFICES ASSUME NEW j \in 1 .. l PROVE Alert(LineOf(r), E, n, ref, j)
    OBVIOUS
  <2>1. Keen(E, n, ref, j)
    BY <1>3 DEF Ended
  <2> QED BY <1>4, <2>1 DEF Keen, Alert, Damageable
<1> QED BY <1>2, <1>3, <1>5 DEF Ended, Sure, LineEnd

HeadStart(a, base, kd, kl, vd, vl) ==
  [state |-> "s_start", str |-> Fixed(base, kd, kl, vd, vl), p |-> a + 1,
   rc |-> "AGAIN"]
HeaderEnd(a, x, base) ==
  [state |-> "OK",
   str |-> Fixed(base, a + 1, Len(Names[x]),
                 ((a + Len(Names[x])) + 1 + Skips[x]) + 1, Widths[x]),
   p |-> (a + Len(Headers[x])) + 1, rc |-> "OK"]
HeadEnd(a, base, kd, kl, vd, vl) ==
  [state |-> "HTTP_PARSE_HEADER_DONE", str |-> Fixed(base, kd, kl, vd, vl),
   p |-> (a + 2) + 1, rc |-> "HTTP_PARSE_HEADER_DONE"]

LEMMA HeadStarted ==
  ASSUME NEW E, NEW n \in Nat, NEW ref, NEW a \in Nat, NEW base,
         NEW kd, NEW kl, NEW vd, NEW vl,
         Runs(HeaderLine, E, a, n, ref, HeadStart(a, base, kd, kl, vd, vl))
  PROVE  /\ Amid(E, n, ref, a, a, "s_start", "AGAIN", base, kd, kl, vd, vl)
         /\ ReadsOn(E, a, n, ref)
<1>1. (a + 1) .. a = {}
  OBVIOUS
<1> QED BY <1>1 DEF Runs, HeadStart, Amid, ReadsOn

LEMMA Awake ==
  ASSUME NEW E, NEW n \in Nat, NEW ref, NEW j, Wary(E, n, ref, j)
  PROVE  Alert(HeaderLine, E, n, ref, j)
BY HeaderDeaf DEF Wary, Alert, Damageable

LEMMA HeaderLeads ==
  ASSUME NEW ref, NEW a \in Nat, NEW base, NEW kd, NEW kl, NEW vd, NEW vl,
         NEW x \in Valued, Spells(ref, a, Headers[x]), NEW good \in Nat
  PROVE  Leads(HeaderLine, ref, a, a + Len(Headers[x]), good,
               HeadStart(a, base, kd, kl, vd, vl), HeaderEnd(a, x, base))
<1> SUFFICES ASSUME NEW n \in Nat, n <= good, NEW E,
                    Runs(HeaderLine, E, a, n, ref, HeadStart(a, base, kd, kl, vd, vl))
             PROVE  Sure(HeaderLine, E, ref, a, a + Len(Headers[x]), n,
                         HeaderEnd(a, x, base))
  BY DEF Leads
<1>1. PICK l, m, v, w : /\ l = a + Len(Headers[x]) /\ m = Len(Names[x])
                        /\ v = ((a + Len(Names[x])) + 1 + Skips[x]) + 1
                        /\ w = Widths[x]
  OBVIOUS
<1>2. Amid(E, n, ref, a, l, "OK", "OK", base, a + 1, m, v, w)
  BY <1>1, HeadStarted, HeaderRead
<1>3. \A j \in (a + 1) .. l : Alert(HeaderLine, E, n, ref, j)
  BY <1>2, Awake DEF Amid
<1> QED BY <1>1, <1>2, <1>3 DEF Amid, Sure, HeaderEnd

LEMMA EndLeads ==
  ASSUME NEW ref, NEW a \in Nat, NEW base, NEW kd, NEW kl, NEW vd, NEW vl,
         Spells(ref, a, Sep(CRLF)), NEW good \in Nat
  PROVE  Leads(HeaderLine, ref, a, a + 2, good,
               HeadStart(a, base, kd, kl, vd, vl), HeadEnd(a, base, kd, kl, vd, vl))
<1> SUFFICES ASSUME NEW n \in Nat, n <= good, NEW E,
                    Runs(HeaderLine, E, a, n, ref, HeadStart(a, base, kd, kl, vd, vl))
             PROVE  Sure(HeaderLine, E, ref, a, a + 2, n,
                         HeadEnd(a, base, kd, kl, vd, vl))
  BY DEF Leads
<1>1. ByteAt(ref, a + 1, Blank, "cr") /\ ByteAt(ref, a + 1 + 1, Blank, "lf")
  <2>1. Sep(CRLF) = In(Blank, <<"cr", "lf">>)
    BY Zenon DEF Sep, Blank, CRLF
  <2>2. Spells(ref, a, In(Blank, <<"cr", "lf">>))
    BY <2>1
  <2> QED BY <2>2, Spelling
<1>2. Amid(E, n, ref, a, a + 1, "s_header_end_r", "AGAIN", base, kd, kl, vd, vl)
  <2>1. a <= a
    OBVIOUS
  <2> QED BY <1>1, <2>1, HeadStarted, HeadBegins
<1>3. Amid(E, n, ref, a, a + 1 + 1, "HTTP_PARSE_HEADER_DONE",
           "HTTP_PARSE_HEADER_DONE", base, kd, kl, vd, vl)
  <2>1. a <= a + 1
    OBVIOUS
  <2> QED BY <1>1, <1>2, <2>1, HeadStarted, HeadEnds
<1>4. PICK l \in Nat : l = a + 1 + 1
  OBVIOUS
<1>5. l = a + 2
  BY <1>4
<1>6. Amid(E, n, ref, a, l, "HTTP_PARSE_HEADER_DONE",
           "HTTP_PARSE_HEADER_DONE", base, kd, kl, vd, vl)
  BY <1>3, <1>4
<1>7. \A j \in (a + 1) .. l : Alert(HeaderLine, E, n, ref, j)
  BY <1>6, Awake DEF Amid
<1>8. Sure(HeaderLine, E, ref, a, l, n, HeadEnd(a, base, kd, kl, vd, vl))
  BY <1>5, <1>6, <1>7 DEF Amid, Sure, HeadEnd
<1> QED BY <1>5, <1>8

(* A call of a parser in a section from a to z, when bytes up to good are  *)
(* those of ref: it comes to the end, wants more, or meets the damage.     *)
LEMMA CourseParsed ==
  ASSUME TypeInv, NEW to \in Nat, to >= pos - 1, NEW c, Course(Table, c, to)
  PROVE  \A i \in (pos - 1) .. to : Parsed(Table, i, c[i])
<1> SUFFICES ASSUME NEW j \in (pos - 1) .. to PROVE Parsed(Table, j, c[j])
  OBVIOUS
<1>1. Tabled(Table)
  BY RequestTable, ResponseTable, HeaderTable DEF Table
<1>2. pos \in Nat \ {0}
  <2>1. pos \in 1 .. (BufSize + 2)
    BY DEF TypeInv, TypeOK
  <2> QED BY <2>1, Limits
<1>3. hd.str \in Strs /\ Reach(hd.str, pos - 1) /\ hd.state \in DOMAIN Table
  BY DEF TypeInv, TypeOK, HeadState, Table
<1>4. Parsed(Table, pos - 1, Begun)
  BY <1>2, <1>3, StrLimited DEF Parsed, Begun, Whole
<1>5. /\ c[pos - 1] = Begun
      /\ \A i \in pos .. to : c[i] = Byte(Table, c[i - 1], Stream[i][2])
  <2>1. PICK table : table = Table
    OBVIOUS
  <2>2. Course(table, c, to)
    BY <2>1
  <2>3. /\ c[pos - 1] = Begun
        /\ \A i \in pos .. to : c[i] = Byte(table, c[i - 1], Stream[i][2])
    BY <1>2, <2>2, CourseSteps
  <2> QED BY <2>1, <2>3
<1> DEFINE M == {i \in Nat : Parsed(Table, i, c[i])}
<1>6. pos - 1 \in M
  BY <1>2, <1>4, <1>5
<1>7. ASSUME NEW i \in pos .. j, i - 1 \in M PROVE i \in M
  <2>1. i \in Nat \ {0} /\ Parsed(Table, i - 1, c[i - 1]) /\ i \in pos .. to
    BY <1>2, <1>7
  <2>2. Parsed(Table, i, Byte(Table, c[i - 1], Stream[i][2]))
    BY <1>1, <2>1, ByteParsed, TableHeeds
  <2> QED BY <1>5, <2>1, <2>2
<1>8. j \in Nat /\ j >= pos - 1
  BY <1>2
<1>9. j \in M
  <2> HIDE DEF M
  <2> QED BY <1>2, <1>6, <1>7, <1>8, Along
<1> QED BY <1>9

Continues(table, c, z, to, f) ==
  \A i \in (z + 1) .. to : c[i] = Byte(table, c[i - 1], f[i])
LEMMA Stays ==
  ASSUME NEW table, NEW c, NEW z \in Nat, NEW to \in Nat, z <= to, NEW f,
         Continues(table, c, z, to, f),
         c[z].rc # "AGAIN"
  PROVE  c[to] = c[z]
<1> DEFINE N == {n \in Nat : z + n <= to => c[z + n] = c[z]}
<1>1. 0 \in N
  OBVIOUS
<1>2. ASSUME NEW n \in Nat, n \in N PROVE n + 1 \in N
  <2> SUFFICES ASSUME z + (n + 1) <= to PROVE c[z + (n + 1)] = c[z]
    OBVIOUS
  <2>1. PICK i : i = z + (n + 1)
    OBVIOUS
  <2>2. i \in (z + 1) .. to /\ i - 1 = z + n /\ z + n <= to
    BY <2>1
  <2>3. c[i - 1] = c[z]
    BY <1>2, <2>2
  <2>4. c[i] = Byte(table, c[i - 1], f[i])
    BY <2>2 DEF Continues
  <2>5. c[i] = c[z]
    BY <2>3, <2>4, ByteEnded
  <2> QED BY <2>1, <2>5
<1>3. to - z \in N
  <2>1. to - z \in Nat
    OBVIOUS
  <2> HIDE DEF N
  <2> QED BY <1>1, <1>2, <2>1, Induct
<1>4. z + (to - z) = to
  OBVIOUS
<1> QED BY <1>3, <1>4

(* Where a parser is in a section, and how a call of it ends.              *)
InSection(table, ref, a, z, k0) ==
  /\ a <= pos - 1 /\ pos - 1 < z
  /\ \E E : Runs(table, E, a, pos - 1, ref, k0) /\ E[pos - 1] = Begun
Sees(ref, good, z) ==
  /\ Agrees(good, ref) /\ pos - 1 <= good
  /\ good < z => Damageable(ref, good + 1) /\ Stream[good + 1][2] = "ctl"
Arrives(k, R, z, to, good) == k = R /\ z <= to /\ z <= good
Waits(table, k, ref, a, z, k0, to, good) ==
  /\ k.rc = "AGAIN" /\ to < z /\ to <= good
  /\ \E E : Runs(table, E, a, to, ref, k0) /\ E[to] = k
Refuses(k, z, good) == k.rc = "ERROR" /\ good < z

LEMMA Outcome ==
  ASSUME TypeInv, NEW to \in Nat, to >= pos - 1, NEW table, table = Table,
         NEW ref, NEW a \in Nat, NEW z \in Nat, NEW good \in Nat, NEW k0, NEW R,
         InSection(table, ref, a, z, k0), Sees(ref, good, z),
         Leads(table, ref, a, z, good, k0, R), R.rc # "AGAIN",
         NEW k, k = Parse(table, to)
  PROVE  \/ Arrives(k, R, z, to, good)
         \/ Waits(table, k, ref, a, z, k0, to, good)
         \/ Refuses(k, z, good)
<1>1. pos \in Nat \ {0}
  BY TypeParts
<1>2. PICK E0 : Runs(table, E0, a, pos - 1, ref, k0) /\ E0[pos - 1] = Begun
  BY DEF InSection
<1>3. a <= pos - 1 /\ pos - 1 < z /\ pos - 1 <= good /\ Agrees(good, ref)
  BY DEF InSection, Sees
<1>4. PICK c : Course(table, c, to) /\ k = c[to]
  BY <1>1, ParseRuns
<1>5. /\ c[pos - 1] = Begun
      /\ \A i \in pos .. to : c[i] = Byte(table, c[i - 1], Stream[i][2])
  BY <1>1, <1>4, CourseSteps
<1>6. \A i \in (pos - 1) .. to : Parsed(table, i, c[i])
  BY <1>4, CourseParsed
<1>7. PICK E : E = [i \in Nat |-> IF i < pos THEN E0[i] ELSE c[i]]
  OBVIOUS
<1>8. \A i \in Nat : pos - 1 <= i => E[i] = c[i]
  <2> SUFFICES ASSUME NEW i \in Nat, pos - 1 <= i PROVE E[i] = c[i]
    OBVIOUS
  <2>1. CASE i = pos - 1
    BY <1>1, <1>2, <1>5, <1>7, <2>1
  <2>2. CASE i # pos - 1
    BY <1>1, <1>7, <2>2
  <2> QED BY <2>1, <2>2
<1>9. PICK n \in Nat : n = IF to <= good THEN to ELSE good
  OBVIOUS
<1>10. n <= to /\ n <= good /\ n >= pos - 1
  BY <1>1, <1>3, <1>9
<1>11. Runs(table, E, a, n, ref, k0)
  <2>1. E[a] = k0
    BY <1>1, <1>2, <1>3, <1>7 DEF Runs
  <2>2. ASSUME NEW j \in Nat \ {0}, a < j, j <= n
        PROVE  E[j] = Byte(table, E[j - 1], ref[j][2])
    <3>1. CASE j < pos
      <4>1. j - 1 \in Nat /\ j - 1 < pos /\ j <= pos - 1
        BY <1>1, <3>1
      <4>2. E[j] = E0[j] /\ E[j - 1] = E0[j - 1]
        BY <1>7, <3>1, <4>1
      <4>3. E0[j] = Byte(table, E0[j - 1], ref[j][2])
        BY <1>2, <2>2, <4>1 DEF Runs
      <4> QED BY <4>2, <4>3
    <3>2. CASE ~(j < pos)
      <4>1. j \in pos .. to /\ j - 1 \in Nat /\ pos - 1 <= j - 1 /\ pos - 1 <= j
        BY <1>1, <1>10, <2>2, <3>2
      <4>2. E[j] = c[j] /\ E[j - 1] = c[j - 1]
        BY <1>8, <4>1
      <4>3. Stream[j] = ref[j]
        BY <1>3, <1>10, <2>2 DEF Agrees
      <4> QED BY <1>5, <4>1, <4>2, <4>3
    <3> QED BY <3>1, <3>2
  <2> QED BY <2>1, <2>2 DEF Runs
<1>12. Sure(table, E, ref, a, z, n, R)
  BY <1>10, <1>11 DEF Leads
<1>13. ASSUME NEW i \in (pos - 1) .. to, c[i].rc # "AGAIN"
       PROVE  c[to] = c[i]
  <2>1. i \in Nat /\ i <= to
    BY <1>1
  <2>2. PICK f : f = [j \in Nat |-> Stream[j][2]]
    OBVIOUS
  <2>3. Continues(table, c, i, to, f)
    <3> SUFFICES ASSUME NEW j \in (i + 1) .. to
                 PROVE  c[j] = Byte(table, c[j - 1], f[j])
      BY DEF Continues
    <3>1. j \in pos .. to /\ j \in Nat
      BY <1>1, <1>13, <2>1
    <3> QED BY <1>5, <2>2, <3>1
  <2> QED BY <1>13, <2>1, <2>3, Stays
<1>14. CASE z <= n
  <2>0. pos - 1 <= z
    BY <1>1, <1>3
  <2>1. E[z] = R /\ E[z] = c[z]
    BY <1>8, <1>12, <1>14, <2>0 DEF Sure
  <2>2. z \in (pos - 1) .. to
    BY <1>1, <1>3, <1>10, <1>14
  <2>3. c[to] = R
    BY <1>13, <2>1, <2>2
  <2>4. z <= to /\ z <= good
    BY <1>10, <1>14
  <2> QED BY <1>4, <2>3, <2>4 DEF Arrives
<1>15. CASE n < z
  <2>1. n + 1 \in (a + 1) .. z /\ (n + 1) - 1 = n /\ n <= n
    BY <1>1, <1>3, <1>10, <1>15
  <2>2. Alert(table, E, n, ref, n + 1)
    BY <1>12, <2>1 DEF Sure
  <2>3. /\ E[n].rc = "AGAIN" /\ E[n] = c[n]
        /\ Damageable(ref, n + 1) => Deaf(table, E[n].state)
    BY <1>8, <1>10, <2>1, <2>2 DEF Alert
  <2>4. CASE to <= good
    <3>1. n = to
      BY <1>9, <2>4
    <3> QED BY <1>4, <1>11, <1>15, <2>3, <2>4, <3>1 DEF Waits
  <2>5. CASE ~(to <= good)
    <3>1. n = good /\ good < z /\ good + 1 <= to
      BY <1>9, <1>15, <2>5
    <3>2. Deaf(table, c[n].state) /\ Stream[n + 1][2] = "ctl" /\ c[n].rc = "AGAIN"
      BY <2>3, <3>1 DEF Sees
    <3>3. n \in (pos - 1) .. to
      BY <1>1, <1>10
    <3>4. c[n].state \in DOMAIN table
      BY <1>6, <3>2, <3>3 DEF Parsed
    <3>5. Options(table, c[n], "ctl") = {}
      BY <3>2, <3>4 DEF Deaf, Options
    <3>6. n + 1 \in pos .. to /\ (n + 1) - 1 = n
      BY <1>1, <1>10, <3>1
    <3>7. c[n + 1] = Byte(table, c[n], "ctl")
      BY <1>5, <3>2, <3>6
    <3>8. c[n + 1] = Illegal(c[n])
      BY <3>2, <3>5, <3>7, ByteRefused
    <3>9. c[n + 1].rc = "ERROR"
      <4>1. Whole(c[n])
        BY <1>6, <3>3 DEF Parsed
      <4> QED BY <3>8, <4>1 DEF Illegal, Whole
    <3>10. c[to] = c[n + 1]
      <4>1. n + 1 \in (pos - 1) .. to /\ c[n + 1].rc # "AGAIN"
        BY <1>1, <3>6, <3>9
      <4> QED BY <1>13, <4>1
    <3> QED BY <1>4, <3>1, <3>9, <3>10 DEF Refuses
  <2> QED BY <2>4, <2>5
<1> QED BY <1>9, <1>14, <1>15

-----------------------------------------------------------------------------
(* How a head is laid out.                                                 *)
LEMMA SpellsLeft ==
  ASSUME NEW a \in Bytes, NEW b \in Bytes, NEW i \in Nat, NEW w, Len(w) \in Nat,
         Spells(a, i, w), i + Len(w) <= Len(a)
  PROVE  Spells(a \o b, i, w)
<1>1. PICK S : S = Tag \X Token
  OBVIOUS
<1>2. a \in Seq(S) /\ b \in Seq(S)
  BY <1>1 DEF Bytes
<1>3. Len(a) \in Nat /\ \A j \in 1 .. Len(a) : (a \o b)[j] = a[j]
  BY <1>2
<1>4. \A j \in 1 .. Len(w) : i + j \in 1 .. Len(a)
  BY <1>3
<1> QED BY <1>3, <1>4 DEF Spells

LEMMA SpellsRight ==
  ASSUME NEW a \in Bytes, NEW b \in Bytes, NEW i \in Nat, NEW w, Len(w) \in Nat,
         Spells(b, i, w), i + Len(w) <= Len(b)
  PROVE  Spells(a \o b, Len(a) + i, w)
<1>1. PICK S : S = Tag \X Token
  OBVIOUS
<1>2. a \in Seq(S) /\ b \in Seq(S)
  BY <1>1 DEF Bytes
<1>3. PICK l \in Nat : l = Len(a)
  BY <1>2
<1>4. Len(b) \in Nat /\ \A j \in 1 .. Len(b) : (a \o b)[l + j] = b[j]
  BY <1>2, <1>3
<1>5. \A j \in 1 .. Len(w) : i + j \in 1 .. Len(b) /\ l + (i + j) = (l + i) + j
  BY <1>4
<1>6. Spells(a \o b, l + i, w)
  BY <1>4, <1>5 DEF Spells
<1> QED BY <1>3, <1>6

LEMMA SpellsItself ==
  ASSUME NEW a \in Bytes
  PROVE  Spells(a, 0, a) /\ Len(a) \in Nat
<1>1. PICK S : S = Tag \X Token
  OBVIOUS
<1>2. Len(a) \in Nat
  BY <1>1 DEF Bytes
<1> QED BY <1>2 DEF Spells

LEMMA LenJoined ==
  ASSUME NEW a \in Bytes, NEW b \in Bytes
  PROVE  /\ a \o b \in Bytes /\ Len(a \o b) = Len(a) + Len(b)
         /\ Len(a) \in Nat /\ Len(b) \in Nat
<1>1. PICK S : S = Tag \X Token
  OBVIOUS
<1> QED BY <1>1 DEF Bytes

(* The first k of ss, one behind the other: the j-th ends at Q[j].         *)
Stacked(s, k, ss, Q) ==
  /\ s \in Bytes /\ Q[0] = 0 /\ Q[k] = Len(s)
  /\ \A j \in 0 .. k : Q[j] \in Nat /\ Q[j] <= Len(s)
  /\ \A j \in 1 .. k : /\ Q[j] = Q[j - 1] + Len(ss[j])
                       /\ Spells(s, Q[j - 1], ss[j])

LEMMA StackedNext ==
  ASSUME NEW s, NEW k \in Nat, NEW ss, NEW Q, Stacked(s, k, ss, Q),
         ss[k + 1] \in Bytes, Q[k + 1] = Len(s \o ss[k + 1]),
         \A j \in 1 .. k : ss[j] \in Bytes
  PROVE  Stacked(s \o ss[k + 1], k + 1, ss, Q)
<1>1. PICK t, w : t = s \o ss[k + 1] /\ w = ss[k + 1]
  OBVIOUS
<1>2. s \in Bytes /\ w \in Bytes /\ t = s \o w
  BY <1>1 DEF Stacked
<1>3. t \in Bytes /\ Len(t) = Len(s) + Len(w) /\ Len(s) \in Nat /\ Len(w) \in Nat
  BY <1>2, LenJoined
<1>4. \A j \in 0 .. (k + 1) : Q[j] \in Nat /\ Q[j] <= Len(t)
  <2>1. 0 .. (k + 1) = (0 .. k) \cup {k + 1}
    OBVIOUS
  <2>2. \A j \in 0 .. k : Q[j] \in Nat /\ Q[j] <= Len(s)
    BY DEF Stacked
  <2>3. Q[k + 1] = Len(t)
    BY <1>1
  <2> QED BY <1>3, <2>1, <2>2, <2>3
<1>5. ASSUME NEW j \in 1 .. k
      PROVE  Q[j] = Q[j - 1] + Len(ss[j]) /\ Spells(t, Q[j - 1], ss[j])
  <2>1. /\ Q[j] = Q[j - 1] + Len(ss[j]) /\ Spells(s, Q[j - 1], ss[j])
        /\ Q[j] <= Len(s) /\ Q[j - 1] \in Nat
    <3>1. j - 1 \in 0 .. k /\ j \in 0 .. k
      OBVIOUS
    <3> QED BY <3>1 DEF Stacked
  <2>2. Len(ss[j]) \in Nat
    BY SpellsItself
  <2>3. Spells(s \o w, Q[j - 1], ss[j])
    BY <1>2, <2>1, <2>2, SpellsLeft
  <2> QED BY <1>2, <2>1, <2>3
<1>6. Q[k + 1] = Q[(k + 1) - 1] + Len(w) /\ Spells(t, Q[(k + 1) - 1], w)
  <2>1. (k + 1) - 1 = k /\ Q[k] = Len(s) /\ Q[k + 1] = Len(t)
    BY <1>1 DEF Stacked
  <2>2. Spells(w, 0, w)
    BY <1>2, SpellsItself
  <2>3. 0 \in Nat /\ 0 + Len(w) <= Len(w) /\ Len(s) + 0 = Len(s)
    BY <1>3
  <2>4. Spells(s \o w, Len(s) + 0, w)
    BY <1>2, <1>3, <2>2, <2>3, SpellsRight
  <2> QED BY <1>2, <1>3, <2>1, <2>3, <2>4
<1>7. \A j \in 1 .. (k + 1) : Q[j] = Q[j - 1] + Len(ss[j]) /\ Spells(t, Q[j - 1], ss[j])
  <2>1. 1 .. (k + 1) = (1 .. k) \cup {k + 1}
    OBVIOUS
  <2> QED BY <1>1, <1>5, <1>6, <2>1
<1>8. Q[0] = 0 /\ Q[k + 1] = Len(t)
  BY <1>1 DEF Stacked
<1>9. Stacked(t, k + 1, ss, Q)
  BY <1>3, <1>4, <1>7, <1>8 DEF Stacked
<1> QED BY <1>1, <1>9

LEMMA FlatStacked ==
  ASSUME NEW ss, NEW n \in Nat, \A i \in 1 .. n : ss[i] \in Bytes,
         Len(ss) = n, n = 0 => ss = <<>>
  PROVE  \E Q : Stacked(FlattenSeq(ss), n, ss, Q)
<1>1. CASE n = 0
  <2>1. FlattenSeq(ss) = <<>>
    BY <1>1 DEF FlattenSeq
  <2>2. <<>> \in Bytes /\ Len(<<>>) = 0
    BY Tuples DEF Bytes
  <2>3. PICK Q : Q = [j \in 0 .. 0 |-> 0]
    OBVIOUS
  <2>4. 1 .. 0 = {} /\ \A j \in 0 .. 0 : j = 0
    OBVIOUS
  <2>5. PICK s : s = FlattenSeq(ss)
    OBVIOUS
  <2>6. s \in Bytes /\ Len(s) = 0
    BY <2>1, <2>2, <2>5
  <2>7. Stacked(s, 0, ss, Q)
    BY <2>3, <2>4, <2>6 DEF Stacked
  <2> QED BY <1>1, <2>5, <2>7
<1>2. CASE n # 0
  <2>1. PICK f : Flat(ss, f, n) /\ FlattenSeq(ss) = f[n]
    BY <1>2, Flattened
  <2>2. \A i \in 1 .. n : f[i] = IF i = 1 THEN ss[i] ELSE f[i - 1] \o ss[i]
    BY <2>1, FlatEntries
  <2>3. PICK Q : Q = [j \in 0 .. n |-> IF j = 0 THEN 0 ELSE Len(f[j])]
    OBVIOUS
  <2> DEFINE M == {m \in Nat : m + 1 <= n => Stacked(f[m + 1], m + 1, ss, Q)}
  <2>4. 0 \in M
    <3>1. f[1] = ss[1] /\ f[1] \in Bytes /\ Q[0] = 0 /\ Q[1] = Len(f[1])
          /\ Len(f[1]) \in Nat /\ Spells(f[1], 0, ss[1])
      <4>1. 1 \in 1 .. n
        BY <1>2
      <4>2. f[1] = ss[1] /\ ss[1] \in Bytes
        BY <2>2, <4>1
      <4>3. Q[0] = 0 /\ Q[1] = Len(f[1])
        BY <2>3, <4>1
      <4> QED BY <4>2, <4>3, SpellsItself
    <3>2. (\A j \in 0 .. 1 : j = 0 \/ j = 1) /\ (\A j \in 1 .. 1 : j = 1) /\ 1 - 1 = 0
      OBVIOUS
    <3>3. Q[1] = Q[0] + Len(ss[1])
      BY <3>1
    <3>4. Stacked(f[1], 1, ss, Q)
      BY <3>1, <3>2, <3>3 DEF Stacked
    <3>5. 0 + 1 = 1
      OBVIOUS
    <3> QED BY <3>4, <3>5
  <2>5. ASSUME NEW m \in Nat, m \in M PROVE m + 1 \in M
    <3> SUFFICES ASSUME (m + 1) + 1 <= n PROVE Stacked(f[(m + 1) + 1], (m + 1) + 1, ss, Q)
      OBVIOUS
    <3>1. PICK k \in Nat : k = m + 1
      OBVIOUS
    <3>2. Stacked(f[k], k, ss, Q)
      BY <2>5, <3>1
    <3>3. k + 1 \in 1 .. n /\ k + 1 # 1 /\ (k + 1) - 1 = k /\ k + 1 \in 0 .. n
          /\ k + 1 # 0 /\ 1 .. k \subseteq 1 .. n
      BY <3>1
    <3>4. f[k + 1] = f[k] \o ss[k + 1]
      BY <2>2, <3>3
    <3>5. Q[k + 1] = Len(f[k] \o ss[k + 1])
      BY <2>3, <3>3, <3>4
    <3>6. ss[k + 1] \in Bytes /\ \A j \in 1 .. k : ss[j] \in Bytes
      BY <3>3
    <3>7. Stacked(f[k] \o ss[k + 1], k + 1, ss, Q)
      BY <3>2, <3>5, <3>6, StackedNext
    <3> QED BY <3>1, <3>4, <3>7
  <2>6. n - 1 \in M
    <3>1. n - 1 \in Nat
      BY <1>2
    <3> HIDE DEF M
    <3> QED BY <2>4, <2>5, <3>1, Induct
  <2>7. (n - 1) + 1 = n
    OBVIOUS
  <2> QED BY <2>1, <2>6, <2>7
<1> QED BY <1>1, <1>2

(* The head m is a line, the headers ns of which the j-th ends at P[j], and*)
(* an empty line.                                                          *)
Outline(m, r, line, N, ns, P) ==
  /\ N \in Nat /\ Consistent(m.names)
  /\ \A j \in 1 .. N : ns[j] \in DOMAIN Headers
  /\ m.names = {ns[j] : j \in 1 .. N}
  /\ line \in LinesOf(r) /\ P[0] = Len(line) /\ Spells(m.bytes, 0, line)
  /\ \A j \in 0 .. N : P[j] \in Nat
  /\ \A j \in 1 .. N : /\ P[j] = P[j - 1] + Len(Headers[ns[j]])
                       /\ Spells(m.bytes, P[j - 1], Headers[ns[j]])
  /\ Spells(m.bytes, P[N], Sep(CRLF)) /\ Len(m.bytes) = P[N] + 2

LEMMA StackedOutline ==
  ASSUME NEW m, NEW r, NEW line, NEW N \in Nat, NEW ns, NEW ss, NEW s, NEW Q,
         Consistent(m.names), \A j \in 1 .. N : ns[j] \in DOMAIN Headers,
         m.names = {ns[j] : j \in 1 .. N}, line \in LinesOf(r), line \in Bytes,
         Stacked(s, N, ss, Q), \A j \in 1 .. N : ss[j] = Headers[ns[j]],
         m.bytes = line \o s \o Sep(CRLF)
  PROVE  \E P : Outline(m, r, line, N, ns, P)
<1>1. PICK c : c = Sep(CRLF)
  OBVIOUS
<1>2. c \in Bytes /\ Len(c) = 2 /\ s \in Bytes
  <2>1. Len(In(Blank, <<"cr", "lf">>)) = 2
    <3>1. PICK f : f = Blank
      OBVIOUS
    <3>2. Len(In(f, <<"cr", "lf">>)) = 2
      BY DEF In
    <3> QED BY <3>1, <3>2
  <2>2. c = In(Blank, <<"cr", "lf">>)
    BY <1>1, Zenon DEF Sep, CRLF, Blank
  <2>3. Len(c) = 2
    BY <2>1, <2>2, Zenon
  <2> QED BY <1>1, <2>3, HeaderBytes DEF Stacked
<1>3. PICK l \in Nat : l = Len(line)
  BY SpellsItself
<1>4. PICK t : t = line \o s
  OBVIOUS
<1>5. t \in Bytes /\ Len(t) = l + Len(s) /\ Len(s) \in Nat
  BY <1>2, <1>3, <1>4, LenJoined
<1>6. m.bytes = t \o c
  BY <1>1, <1>4
<1>7. Len(m.bytes) = l + Len(s) + 2
  BY <1>2, <1>5, <1>6, LenJoined
<1>8. PICK P : P = [j \in 0 .. N |-> l + Q[j]]
  OBVIOUS
<1>9. ASSUME NEW i \in Nat, NEW w, Len(w) \in Nat, Spells(s, i, w), i + Len(w) <= Len(s)
      PROVE  Spells(m.bytes, l + i, w)
  <2>1. Spells(t, l + i, w)
    BY <1>2, <1>3, <1>4, <1>9, SpellsRight
  <2>2. l + i \in Nat /\ (l + i) + Len(w) <= Len(t)
    BY <1>5, <1>9
  <2>3. Spells(t \o c, l + i, w)
    BY <1>2, <1>5, <1>9, <2>1, <2>2, SpellsLeft
  <2> QED BY <1>6, <2>3
<1>10. Spells(m.bytes, 0, line)
  <2>1. Spells(line, 0, line) /\ 0 \in Nat /\ 0 + Len(line) <= Len(line) /\ Len(line) \in Nat
    BY <1>3, SpellsItself
  <2>2. Spells(t, 0, line)
    BY <1>2, <1>4, <2>1, SpellsLeft
  <2>3. 0 + Len(line) <= Len(t)
    BY <1>3, <1>5
  <2>4. Spells(t \o c, 0, line)
    BY <1>2, <1>5, <2>1, <2>2, <2>3, SpellsLeft
  <2> QED BY <1>6, <2>4
<1>11. \A j \in 0 .. N : P[j] = l + Q[j] /\ Q[j] \in Nat /\ P[j] \in Nat
  BY <1>8 DEF Stacked
<1>12. P[0] = l /\ P[N] = l + Len(s)
  <2>1. 0 \in 0 .. N /\ N \in 0 .. N
    OBVIOUS
  <2>2. Q[0] = 0 /\ Q[N] = Len(s)
    BY DEF Stacked
  <2>3. P[0] = l + Q[0] /\ P[N] = l + Q[N]
    BY <1>11, <2>1
  <2>4. l + 0 = l
    BY <1>3
  <2> QED BY <2>2, <2>3, <2>4, Zenon
<1>13. Spells(m.bytes, P[N], c)
  <2>1. Spells(c, 0, c) /\ 0 \in Nat /\ 0 + Len(c) <= Len(c) /\ Len(c) \in Nat
    BY <1>2, SpellsItself
  <2>2. Spells(t \o c, Len(t) + 0, c)
    BY <1>2, <1>5, <2>1, SpellsRight
  <2>3. Len(t) + 0 = P[N]
    BY <1>5, <1>12
  <2> QED BY <1>6, <2>2, <2>3
<1>14. ASSUME NEW j \in 1 .. N
       PROVE  /\ P[j] = P[j - 1] + Len(Headers[ns[j]])
              /\ Spells(m.bytes, P[j - 1], Headers[ns[j]])
  <2>1. j - 1 \in 0 .. N /\ j \in 0 .. N
    OBVIOUS
  <2>2. PICK w : w = Headers[ns[j]]
    OBVIOUS
  <2>3. /\ Q[j] = Q[j - 1] + Len(w) /\ Spells(s, Q[j - 1], w)
        /\ Q[j - 1] \in Nat /\ Q[j] <= Len(s)
    BY <2>1, <2>2 DEF Stacked
  <2>4. Len(w) \in Nat
    <3>1. w \in Bytes
      BY <2>2, HeaderBytes
    <3> QED BY <3>1, SpellsItself
  <2>5. Spells(m.bytes, l + Q[j - 1], w)
    BY <1>9, <2>3, <2>4
  <2>6. P[j] = l + Q[j] /\ P[j - 1] = l + Q[j - 1]
    BY <1>11, <2>1
  <2> QED BY <2>2, <2>3, <2>4, <2>5, <2>6
<1>15. Len(m.bytes) = P[N] + 2
  BY <1>5, <1>7, <1>12
<1> QED BY <1>1, <1>3, <1>10, <1>11, <1>12, <1>13, <1>14, <1>15 DEF Outline

LEMMA SoundOutlined ==
  ASSUME NEW r, NEW lines, lines \subseteq LinesOf(r), lines \subseteq Bytes, NEW max,
         NEW m \in Sound(lines, max)
  PROVE  m.damaged = 0 /\ \E line, N, ns, P : Outline(m, r, line, N, ns, P)
<1>1. PICK line, n, names, ns : line \in lines /\ Composed(m, line, n, names, ns)
  BY SoundComposed
<1>2. /\ n \in Nat /\ names \in [1 .. n -> ns] /\ ns \subseteq DOMAIN Headers
      /\ m.damaged = 0
  BY <1>1 DEF Composed
<1>3. PICK ss : ss = [i \in DOMAIN names |-> Headers[names[i]]]
  OBVIOUS
<1>4. /\ DOMAIN ss = 1 .. n /\ \A i \in 1 .. n : ss[i] = Headers[names[i]]
      /\ \A i \in 1 .. n : ss[i] \in Bytes /\ names[i] \in DOMAIN Headers
  BY <1>2, <1>3, HeaderBytes
<1>5. ss \in Seq(Bytes) /\ Len(ss) = n
  BY <1>2, <1>3, <1>4
<1>6. n = 0 => ss = <<>>
  BY <1>5
<1>7. PICK Q : Stacked(FlattenSeq(ss), n, ss, Q)
  BY <1>2, <1>4, <1>5, <1>6, FlatStacked
<1>8. PICK s : s = FlattenSeq(ss)
  OBVIOUS
<1>9. m.bytes = line \o s \o Sep(CRLF)
  BY <1>1, <1>3, <1>8, Zenon DEF Composed
<1>10. m.names = {names[j] : j \in 1 .. n}
  <2>1. m.names = ToSet(names)
    BY <1>1 DEF Composed
  <2> QED BY <1>2, <2>1 DEF ToSet
<1>11. Consistent(m.names)
  <2>1. Consistent(ns)
    BY <1>1 DEF Composed
  <2> QED BY <1>2, <1>10, <2>1 DEF Consistent
<1>12. Stacked(s, n, ss, Q) /\ line \in LinesOf(r) /\ line \in Bytes
  BY <1>1, <1>7, <1>8
<1>13. \E P : Outline(m, r, line, n, names, P)
  BY <1>2, <1>4, <1>9, <1>10, <1>11, <1>12, StackedOutline
<1> QED BY <1>2, <1>13

-----------------------------------------------------------------------------
(* h is m, or m with one byte that is damaged.                             *)
Version(h, m) ==
  /\ h.names = m.names /\ Len(h.bytes) = Len(m.bytes)
  /\ h.damaged = 0 => h.bytes = m.bytes
  /\ h.damaged # 0 =>
       /\ h.damaged \in 2 .. Len(m.bytes) /\ Damageable(m.bytes, h.damaged)
       /\ h.bytes[h.damaged][2] = "ctl" /\ "bare" \notin h.names
       /\ \A i \in 1 .. Len(m.bytes) : i # h.damaged => h.bytes[i] = m.bytes[i]
Kept(h, r) == \E m, line, N, ns, P : Outline(m, r, line, N, ns, P) /\ Version(h, m)
Known(h, r) == IF h.longer THEN h.damaged = 0 ELSE Kept(h, r)

LEMMA SoundKept ==
  ASSUME NEW r, NEW lines, lines \subseteq LinesOf(r), lines \subseteq Bytes, NEW max,
         NEW m \in Sound(lines, max)
  PROVE  Known(m, r) /\ Kept(m, r) /\ m.damaged = 0
<1>1. m.damaged = 0 /\ \E line, N, ns, P : Outline(m, r, line, N, ns, P)
  BY SoundOutlined
<1>2. Version(m, m)
  BY <1>1 DEF Version
<1>3. ~m.longer
  BY SoundComposed DEF Composed
<1> QED BY <1>1, <1>2, <1>3 DEF Kept, Known

LEMMA DamagedKept ==
  ASSUME NEW r, NEW lines, lines \subseteq LinesOf(r), lines \subseteq Bytes, NEW max,
         NEW m \in Sound(lines, max), "bare" \notin m.names, NEW d \in Damaged(m)
  PROVE  Kept(d, r)
<1>1. PICK line, N, ns, P : Outline(m, r, line, N, ns, P)
  BY SoundOutlined
<1>2. PICK i \in 2 .. Len(m.bytes) :
        /\ d = [m EXCEPT !.bytes[i][2] = "ctl", !.damaged = i]
        /\ m.bytes[i][1] \in Dam
        /\ m.bytes[i][1] = "method" => m.bytes[i - 1][1] = "method"
  BY DEF Damaged, Dam
<1>3. m.bytes \in Bytes /\ m = [bytes |-> m.bytes, names |-> m.names,
                                damaged |-> m.damaged, longer |-> m.longer]
  <2>1. m \in Message
    BY SoundMessages
  <2> QED BY <2>1 DEF Message, Bytes
<1>4. PICK b : b = [m.bytes EXCEPT ![i][2] = "ctl"]
  OBVIOUS
<1>5. /\ Len(b) = Len(m.bytes) /\ b[i][2] = "ctl"
      /\ \A j \in 1 .. Len(m.bytes) : j # i => b[j] = m.bytes[j]
  <2>1. PICK S, T : S = Tag /\ T = Token
    OBVIOUS
  <2>2. m.bytes \in Seq(S \X T)
    BY <1>3, <2>1 DEF Bytes
  <2>3. PICK x : x = [m.bytes[i] EXCEPT ![2] = "ctl"]
    OBVIOUS
  <2>4. x[2] = "ctl"
    <3>1. m.bytes[i] \in S \X T
      BY <2>2
    <3> QED BY <2>3, <3>1
  <2>5. b = [m.bytes EXCEPT ![i] = x]
    BY <1>4, <2>3
  <2> QED BY <2>2, <2>4, <2>5
<1>6. d.names = m.names /\ d.bytes = b /\ d.damaged = i
  BY <1>2, <1>3, <1>4
<1>7. i > 1 /\ i # 0
  BY <1>3, SpellsItself
<1>8. Damageable(m.bytes, i)
  BY <1>2, <1>7 DEF Damageable
<1>9. Version(d, m)
  BY <1>5, <1>6, <1>7, <1>8 DEF Version
<1> QED BY <1>1, <1>9 DEF Kept

(* What is sent is kept, but for heads with a longer word; damage is only  *)
(* in a head that comes alone.                                             *)
AllKept(h, r) == /\ \A i \in 1 .. Len(h) : Known(h[i], r)
                 /\ \A i \in 2 .. Len(h) : h[i].damaged = 0
LEMMA TalksKept ==
  ASSUME NEW r, NEW lines, lines = LinesOf(r), lines \subseteq Bytes, lines # {},
         NEW h \in Talks(lines)
  PROVE  AllKept(h, r)
<1>1. PICK short : short = {CHOOSE line \in lines :
                             \A l \in lines : Len(line) <= Len(l)}
  OBVIOUS
<1>2. short \subseteq lines
  <2>1. {Len(l) : l \in lines} \subseteq Nat
    <3> PICK S : S = Tag \X Token
      OBVIOUS
    <3>1. \A l \in Seq(S) : Len(l) \in Nat
      OBVIOUS
    <3> QED BY <3>1 DEF Bytes
  <2>2. \E line \in lines : \A l \in lines : Len(line) <= Len(l)
    <3>1. PICK S : S = {Len(l) : l \in lines}
      OBVIOUS
    <3>2. PICK n \in S : \A k \in S : n <= k
      BY <2>1, <3>1, Least
    <3> QED BY <3>1, <3>2
  <2> QED BY <1>1, <2>2
<1> DEFINE first(ls) == {m \in Sound(ls, 1) :
                           m.names \in {{"length"}, {"keep"}}}
<1> DEFINE X == {<<m, n>> : m \in first(lines), n \in Sound(short, 1)}
           Y == {<<m, n>> : m \in first(short),
                   n \in Sound(lines, 1) \cup Sound(short, MaxHeaders)}
           Z == {<<d>> : d \in UNION {Damaged(m) \cup Longer(m) : m \in first(lines)}}
<1>3. Talks(lines) = X \cup Y \cup Z
  BY <1>1 DEF Talks
<1> DEFINE Good(m) == Known(m, r) /\ m.damaged = 0
<1>4. /\ \A m \in Sound(lines, 1) : Good(m)
      /\ \A m \in Sound(short, 1) : Good(m)
      /\ \A m \in Sound(short, MaxHeaders) : Good(m)
  <2>1. short \subseteq LinesOf(r) /\ short \subseteq Bytes
    BY <1>2
  <2>2. \A m \in Sound(lines, 1) : Good(m)
    BY SoundKept
  <2>3. \A m \in Sound(short, 1) : Good(m)
    BY <2>1, SoundKept
  <2>4. \A m \in Sound(short, MaxHeaders) : Good(m)
    BY <2>1, SoundKept
  <2> QED BY <2>2, <2>3, <2>4
<1>5. \A m \in first(lines) : \A d \in Damaged(m) \cup Longer(m) : Known(d, r)
  <2> SUFFICES ASSUME NEW m \in Sound(lines, 1), m.names \in {{"length"}, {"keep"}},
                      NEW d \in Damaged(m) \cup Longer(m)
               PROVE  Known(d, r)
    OBVIOUS
  <2>1. "bare" \notin m.names
    OBVIOUS
  <2>2. m \in Message /\ m.damaged = 0
    BY <1>4, SoundMessages
  <2>3. CASE d \in Damaged(m)
    <3>1. d.longer = m.longer
      BY <2>2, <2>3 DEF Damaged, Message
    <3>2. ~m.longer
      BY SoundComposed DEF Composed
    <3> QED BY <2>1, <2>3, <3>1, <3>2, DamagedKept DEF Known
  <2>4. CASE d \in Longer(m)
    BY <2>2, <2>4, LongerMessages DEF Known
  <2> QED BY <2>3, <2>4
<1>6. \/ \E m, n : Good(m) /\ Good(n) /\ h = <<m, n>>
      \/ \E d : Known(d, r) /\ h = <<d>>
  <2>1. (\A m \in first(lines) : Good(m)) /\ (\A m \in first(short) : Good(m))
    <3> HIDE DEF Good
    <3> QED BY <1>4
  <2>2. ASSUME h \in X PROVE \E m, n : Good(m) /\ Good(n) /\ h = <<m, n>>
    <3> HIDE DEF first, Good
    <3> QED BY <1>4, <2>1, <2>2
  <2>3. ASSUME h \in Y PROVE \E m, n : Good(m) /\ Good(n) /\ h = <<m, n>>
    <3> HIDE DEF first, Good
    <3> QED BY <1>4, <2>1, <2>3
  <2>4. ASSUME h \in Z PROVE \E d : Known(d, r) /\ h = <<d>>
    <3> HIDE DEF first
    <3>1. PICK m \in first(lines) : \E d \in Damaged(m) \cup Longer(m) : h = <<d>>
      BY <2>4
    <3> QED BY <1>5, <3>1
  <2> HIDE DEF X, Y, Z
  <2> QED BY <1>3, <2>2, <2>3, <2>4
<1>7. CASE \E m, n : Good(m) /\ Good(n) /\ h = <<m, n>>
  <2>1. PICK m, n : Good(m) /\ Good(n) /\ h = <<m, n>>
    BY <1>7
  <2>2. Len(h) = 2 /\ h[1] = m /\ h[2] = n
    BY <2>1
  <2>3. \A i \in 1 .. 2 : i = 1 \/ i = 2
    OBVIOUS
  <2>4. \A i \in 2 .. 2 : i = 2
    OBVIOUS
  <2> QED BY <2>1, <2>2, <2>3, <2>4 DEF AllKept
<1>8. CASE \E d : Known(d, r) /\ h = <<d>>
  <2>1. PICK d : Known(d, r) /\ h = <<d>>
    BY <1>8
  <2>2. Len(h) = 1 /\ h[1] = d
    BY <2>1
  <2>3. (\A i \in 1 .. 1 : i = 1) /\ 2 .. 1 = {}
    OBVIOUS
  <2> QED BY <2>1, <2>2, <2>3 DEF AllKept
<1> QED BY <1>6, <1>7, <1>8

(* A line is not empty, and neither is a header.                           *)
LEMMA LineLong ==
  ASSUME NEW r \in {"request", "response"}, NEW line \in LinesOf(r)
  PROVE  Len(line) \in Nat \ {0}
<1>1. PICK E : E = [j \in Nat |-> LineStart(r)]
  OBVIOUS
<1>2. PICK ref : ref = [j \in Nat |-> IF j \in 1 .. Len(line) THEN line[j] ELSE 0]
  OBVIOUS
<1>3. Agrees(0, ref)
  BY DEF Agrees
<1>4. Spells(ref, 0, line) \/ Len(line) \notin Nat
  BY <1>2 DEF Spells
<1>5. Runs(LineOf(r), E, 0, 0, ref, LineStart(r))
  BY <1>1 DEF Runs
<1>6. Len(line) \in Nat
  <2>1. line \in Bytes
    BY RequestBytes, StatusBytes DEF LinesOf
  <2> QED BY <2>1, SpellsItself
<1>7. Ended(E, 0, ref, Len(line))
  <2>1. 0 \in Nat
    OBVIOUS
  <2> QED BY <1>3, <1>4, <1>5, <1>6, <2>1, LineEnded
<1>8. ASSUME Len(line) = 0 PROVE FALSE
  <2>1. E[0].rc = "DONE"
    BY <1>7, <1>8 DEF Ended
  <2>2. E[0].rc = "AGAIN"
    BY <1>1 DEF LineStart
  <2> QED BY <2>1, <2>2
<1> QED BY <1>6, <1>8

LEMMA HeaderUntagged ==
  ASSUME NEW ref, NEW a \in Nat, NEW x \in Valued, Spells(ref, a, Headers[x])
  PROVE  /\ Len(Headers[x]) \in Nat \ {0}
         /\ \A i \in (a + 1) .. (a + Len(Headers[x])) : ref[i][1] \notin Field
<1>1. PICK name, value, o, c :
        name = Names[x] /\ value = Values[x] /\ o = Skips[x] /\ c = Widths[x]
  OBVIOUS
<1>2. Shaped(name, value, o, c) /\ Headers[x] = Header(name, value)
  BY <1>1, HeaderParts
<1>3. Laid(ref, a, name, value)
  <2>1. name \in Seq(Token) /\ value \in Seq(Token)
    BY <1>2 DEF Shaped
  <2> QED BY <1>2, <2>1, HeaderLaid
<1>4. PICK m \in Nat, v \in Nat : m = Len(name) /\ v = Len(value)
  BY <1>3 DEF Laid
<1>5. /\ Len(Headers[x]) = m + v + 3
      /\ \A j \in 1 .. m : ByteAt(ref, a + j, "name", name[j])
      /\ ByteAt(ref, (a + m) + 1, Blank, ":")
      /\ \A j \in 1 .. v : ByteAt(ref, ((a + m) + 1) + j, Blank, value[j])
      /\ ByteAt(ref, (((a + m) + 1) + v) + 1, Blank, "cr")
      /\ ByteAt(ref, (((a + m) + 1) + v) + 1 + 1, Blank, "lf")
  BY <1>2, <1>3, <1>4 DEF Laid
<1>6. "name" \notin Field /\ Blank \notin Field
  BY Blanks DEF Field
<1>7. ASSUME NEW i \in (a + 1) .. (a + (m + v + 3)) PROVE ref[i][1] \notin Field
  <2>1. CASE i <= a + m
    <3>1. i - a \in 1 .. m /\ a + (i - a) = i
      BY <2>1
    <3>2. ByteAt(ref, a + (i - a), "name", name[i - a])
      BY <1>5, <3>1
    <3> QED BY <1>6, <3>1, <3>2 DEF ByteAt
  <2>2. CASE i = (a + m) + 1
    BY <1>5, <1>6, <2>2 DEF ByteAt
  <2>3. CASE i > (a + m) + 1 /\ i <= ((a + m) + 1) + v
    <3>1. PICK j \in 1 .. v : i = ((a + m) + 1) + j
      <4>1. i - ((a + m) + 1) \in 1 .. v /\ i = ((a + m) + 1) + (i - ((a + m) + 1))
        BY <2>3
      <4> QED BY <4>1
    <3>2. ByteAt(ref, ((a + m) + 1) + j, Blank, value[j])
      BY <1>5
    <3> QED BY <1>6, <3>1, <3>2 DEF ByteAt
  <2>4. CASE i = (((a + m) + 1) + v) + 1
    BY <1>5, <1>6, <2>4 DEF ByteAt
  <2>5. CASE i = (((a + m) + 1) + v) + 1 + 1
    BY <1>5, <1>6, <2>5 DEF ByteAt
  <2> QED BY <2>1, <2>2, <2>3, <2>4, <2>5
<1>8. m + v + 3 \in Nat \ {0}
  OBVIOUS
<1> QED BY <1>5, <1>7, <1>8

LEMMA EndUntagged ==
  ASSUME NEW ref, NEW a \in Nat, Spells(ref, a, Sep(CRLF))
  PROVE  \A i \in (a + 1) .. (a + 2) : ref[i][1] \notin Field
<1>1. ByteAt(ref, a + 1, Blank, "cr") /\ ByteAt(ref, a + 1 + 1, Blank, "lf")
  <2>1. Sep(CRLF) = In(Blank, <<"cr", "lf">>)
    BY Zenon DEF Sep, Blank, CRLF
  <2>2. Spells(ref, a, In(Blank, <<"cr", "lf">>))
    BY <2>1
  <2> QED BY <2>2, Spelling
<1>2. \A i \in (a + 1) .. (a + 2) : i = a + 1 \/ i = a + 1 + 1
  OBVIOUS
<1>3. Blank \notin Field
  BY Blanks
<1> QED BY <1>1, <1>2, <1>3 DEF ByteAt

(* The ends of the headers follow each other, and behind the line are no   *)
(* more fields.                                                            *)
LEMMA OutlineOrder ==
  ASSUME NEW m, NEW r, NEW line, NEW N, NEW ns, NEW P,
         Outline(m, r, line, N, ns, P), "bare" \notin m.names
  PROVE  /\ N \in Nat /\ \A j \in 0 .. N : P[j] \in Nat /\ P[j] <= P[N]
         /\ \A j \in 1 .. N : ns[j] \in Valued /\ P[j - 1] < P[j]
         /\ \A f \in Field : Tagged(m.bytes, P[N] + 2, f) = Tagged(m.bytes, P[0], f)
<1>1. /\ N \in Nat /\ \A j \in 0 .. N : P[j] \in Nat
      /\ \A j \in 1 .. N : ns[j] \in DOMAIN Headers
      /\ m.names = {ns[j] : j \in 1 .. N}
  BY DEF Outline
<1>2. \A j \in 1 .. N : ns[j] \in Valued
  <2> SUFFICES ASSUME NEW j \in 1 .. N PROVE ns[j] \in Valued
    OBVIOUS
  <2>1. ns[j] # "bare" /\ ns[j] \in DOMAIN Headers
    BY <1>1
  <2> QED BY <2>1, HeaderParts
<1>3. PICK ref : ref = m.bytes
  OBVIOUS
<1>4. ASSUME NEW j \in 1 .. N
      PROVE  /\ P[j - 1] < P[j]
             /\ \A i \in (P[j - 1] + 1) .. P[j] : ref[i][1] \notin Field
  <2>1. j - 1 \in 0 .. N /\ j \in 0 .. N
    BY <1>1
  <2>2. P[j] = P[j - 1] + Len(Headers[ns[j]]) /\ Spells(ref, P[j - 1], Headers[ns[j]])
    BY <1>3 DEF Outline
  <2>3. PICK a \in Nat : a = P[j - 1]
    BY <1>1, <2>1
  <2>4. PICK x \in Valued : x = ns[j]
    BY <1>2
  <2>5. PICK l : l = Len(Headers[x])
    OBVIOUS
  <2>6. l \in Nat \ {0} /\ \A i \in (a + 1) .. (a + l) : ref[i][1] \notin Field
    BY <2>2, <2>3, <2>4, <2>5, HeaderUntagged
  <2>7. P[j] = a + l
    BY <2>2, <2>3, <2>4, <2>5
  <2> QED BY <2>3, <2>6, <2>7
<1> DEFINE M == {d \in Nat : \A j \in 0 .. N : j + d <= N => P[j] <= P[j + d]}
<1>5. 0 \in M
  BY <1>1
<1>6. ASSUME NEW d \in Nat, d \in M PROVE d + 1 \in M
  <2> SUFFICES ASSUME NEW j \in 0 .. N, j + (d + 1) <= N PROVE P[j] <= P[j + (d + 1)]
    OBVIOUS
  <2>1. PICK i : i = j + (d + 1)
    OBVIOUS
  <2>2. i \in 1 .. N /\ i \in 0 .. N /\ i - 1 = j + d /\ j + d <= N /\ i - 1 \in 0 .. N
    BY <1>1, <2>1
  <2>3. P[j] <= P[i - 1]
    BY <1>6, <2>2
  <2>4. P[i - 1] < P[i] /\ P[i] \in Nat /\ P[i - 1] \in Nat /\ P[j] \in Nat
    BY <1>1, <1>4, <2>2
  <2> QED BY <2>1, <2>3, <2>4
<1>7. ASSUME NEW j \in 0 .. N PROVE P[j] <= P[N]
  <2>1. N - j \in Nat /\ j + (N - j) = N
    BY <1>1
  <2>2. N - j \in M
    <3> HIDE DEF M
    <3> QED BY <1>5, <1>6, <2>1, Induct
  <2>3. j + (N - j) <= N
    BY <1>1, <2>1
  <2>4. P[j] <= P[j + (N - j)]
    BY <2>2, <2>3
  <2> QED BY <2>1, <2>4
<1> DEFINE U == {d \in Nat : d <= N => \A i \in (P[0] + 1) .. P[d] : ref[i][1] \notin Field}
<1>8. 0 \in U
  <2>1. P[0] \in Nat
    BY <1>1
  <2>2. (P[0] + 1) .. P[0] = {}
    BY <2>1
  <2> QED BY <2>2
<1>9. ASSUME NEW d \in Nat, d \in U PROVE d + 1 \in U
  <2> SUFFICES ASSUME d + 1 <= N, NEW i \in (P[0] + 1) .. P[d + 1]
               PROVE  ref[i][1] \notin Field
    OBVIOUS
  <2>1. PICK e : e = d + 1
    OBVIOUS
  <2>2. e \in 1 .. N /\ e - 1 = d /\ d <= N /\ d \in 0 .. N /\ e \in 0 .. N /\ 0 \in 0 .. N
    BY <1>1, <2>1
  <2>3. \A t \in (P[d] + 1) .. P[e] : ref[t][1] \notin Field
    BY <1>4, <2>2
  <2>4. \A t \in (P[0] + 1) .. P[d] : ref[t][1] \notin Field
    BY <1>9, <2>2
  <2>5. P[0] \in Nat /\ P[d] \in Nat /\ P[e] \in Nat /\ i \in (P[0] + 1) .. P[e]
    BY <1>1, <2>1, <2>2
  <2>6. CASE i <= P[d]
    BY <2>4, <2>5, <2>6
  <2>7. CASE ~(i <= P[d])
    <3>1. i \in (P[d] + 1) .. P[e]
      BY <2>5, <2>7
    <3> QED BY <2>3, <3>1
  <2> QED BY <2>6, <2>7
<1>10. \A i \in (P[0] + 1) .. P[N] : ref[i][1] \notin Field
  <2>1. N \in U
    <3> HIDE DEF U
    <3> QED BY <1>1, <1>8, <1>9, Induct
  <2>2. N <= N
    BY <1>1
  <2> QED BY <2>1, <2>2
<1>11. PICK a \in Nat, z \in Nat : a = P[0] /\ z = P[N] /\ a <= z
  <2>1. 0 \in 0 .. N /\ N \in 0 .. N
    BY <1>1
  <2> QED BY <1>1, <1>7, <2>1
<1>12. \A i \in (z + 1) .. (z + 2) : ref[i][1] \notin Field
  <2>1. Spells(ref, z, Sep(CRLF))
    BY <1>3, <1>11 DEF Outline
  <2> QED BY <2>1, EndUntagged
<1>13. ASSUME NEW f \in Field PROVE Tagged(ref, z + 2, f) = Tagged(ref, a, f)
  <2>1. \A i \in 1 .. (z + 2) : ref[i][1] = f => i \in 1 .. a
    <3> SUFFICES ASSUME NEW i \in 1 .. (z + 2), ~(i <= a) PROVE ref[i][1] # f
      OBVIOUS
    <3>1. i \in (a + 1) .. z \/ i \in (z + 1) .. (z + 2)
      OBVIOUS
    <3> QED BY <1>10, <1>11, <1>12, <3>1
  <2>2. 1 .. a \subseteq 1 .. (z + 2)
    BY <1>11
  <2> QED BY <2>1, <2>2 DEF Tagged
<1> QED BY <1>1, <1>2, <1>3, <1>4, <1>7, <1>11, <1>13

(* A step that leaves the heads alone reads the same bytes.                *)
LEMMA SameContents ==
  ASSUME heads' = heads, NEW s
  PROVE  Contents(s)' = Contents(s)
<1>1. PICK T : T = Stream
  OBVIOUS
<1>2. T = Stream'
  BY <1>1 DEF Stream
<1>3. Contents(s) = [i \in 1 .. s.len |-> T[s.data + i - 1][2]]
  BY <1>1 DEF Contents
<1>4. Contents(s)' = [i \in 1 .. s.len |-> T[s.data + i - 1][2]]
  BY <1>2 DEF Contents
<1> QED BY <1>3, <1>4

LEMMA SameConnects ==
  ASSUME heads' = heads, NEW k
  PROVE  Connects(k)' <=> Connects(k)
<1>1. PICK s : s = [k.str["method"] EXCEPT !.len = Length(k, "method")]
  OBVIOUS
<1>2. Connects(k) <=> k.state = "s_method" /\ Contents(s) = <<"CON", "NECT">>
  BY <1>1 DEF Connects
<1>3. Connects(k)' <=> k.state = "s_method" /\ Contents(s)' = <<"CON", "NECT">>
  BY <1>1 DEF Connects, Length
<1> QED BY <1>2, <1>3, SameContents

LEMMA SameByte ==
  ASSUME heads' = heads, NEW table, NEW k, NEW b
  PROVE  Byte(table, k, b)' = Byte(table, k, b)
<1>1. PICK c \in BOOLEAN : c <=> Connects(k)
  BY DEF Connects
<1>2. c <=> Connects(k)'
  BY <1>1, SameConnects
<1> QED BY <1>1, <1>2, Zenon DEF Byte, Admits, TooLong, Illegal, Length

LEMMA SameMeans ==
  ASSUME heads' = heads, NEW r, NEW h, hd' = h, NEW done, Means(r, h, done)
  PROVE  Means(r, hd, done)'
<1>1. PICK s : s = h.content_length
  OBVIOUS
<1>2. Contents(s)' = Contents(s)
  BY SameContents
<1>3. Contents(h.content_length)' = Contents(h.content_length)
  BY <1>1, <1>2
<1> QED BY <1>3 DEF Means

(* A parser that left off at n goes on from there.                         *)
LEMMA InSectionNext ==
  ASSUME heads' = heads, NEW table, NEW ref, NEW a \in Nat, NEW z, NEW k0,
         NEW E, NEW n, n = pos' - 1, a <= n, n < z, Runs(table, E, a, n, ref, k0),
         E[n] = [state |-> hd'.state, str |-> hd'.str, p |-> pos', rc |-> "AGAIN"]
  PROVE  InSection(table, ref, a, z, k0)'
<1>1. E[n] = Begun'
  BY DEF Begun
<1>2. Runs(table, E, a, n, ref, k0)'
  <2>1. \A j \in Nat \ {0} : a < j /\ j <= n => E[j] = Byte(table, E[j - 1], ref[j][2])'
    <3> SUFFICES ASSUME NEW j \in Nat \ {0}, a < j, j <= n
                 PROVE  E[j] = Byte(table, E[j - 1], ref[j][2])'
      OBVIOUS
    <3>1. E[j] = Byte(table, E[j - 1], ref[j][2])
      BY DEF Runs
    <3> QED BY <3>1, SameByte
  <2> QED BY <2>1 DEF Runs
<1> QED BY <1>1, <1>2 DEF InSection

(* A parser that begins at a.                                              *)
LEMMA InSectionFresh ==
  ASSUME NEW table, NEW ref, NEW a \in Nat, NEW z, NEW k0, a = pos' - 1, a < z,
         k0 = [state |-> hd'.state, str |-> hd'.str, p |-> pos', rc |-> "AGAIN"]
  PROVE  InSection(table, ref, a, z, k0)'
<1>1. PICK E : E = [j \in Nat |-> k0]
  OBVIOUS
<1>2. E[a] = k0 /\ E[a] = Begun'
  BY <1>1 DEF Begun
<1>3. Runs(table, E, a, a, ref, k0)'
  BY <1>2 DEF Runs
<1>4. a <= a
  OBVIOUS
<1> QED BY <1>2, <1>3, <1>4 DEF InSection

-----------------------------------------------------------------------------
(* Which bytes of a head are as they were written.                         *)
Good(h) == IF h.damaged = 0 THEN Len(h.bytes) ELSE h.damaged - 1

(* A parser is in the line, or in what begins where the j-th header ends.  *)
InLine(r, m, P) ==
  /\ hd.handler = "line" /\ Means(r, hd, {})
  /\ r = "response" => hd.state = "start"
  /\ InSection(LineOf(r), m.bytes, 0, P[0], LineStart(r))
Mark(N, P, j) == IF j = N THEN P[N] + 2 ELSE P[j + 1]
Passed(ns, j) == {ns[i] : i \in 1 .. j}
InHeader(r, m, N, ns, P, j) ==
  /\ j \in 0 .. N /\ hd.handler = "headers" /\ Means(r, hd, Passed(ns, j))
  /\ \E kd, kl, vd, vl :
       InSection(HeaderLine, m.bytes, P[j], Mark(N, P, j),
                 HeadStart(P[j], Open(m.bytes, P[0], Blank), kd, kl, vd, vl))
Within(r, m, line, N, ns, P) ==
  /\ r = role /\ Outline(m, r, line, N, ns, P) /\ Version(current, m)
  /\ pos - 1 <= Good(current)
  /\ InLine(r, m, P) \/ \E j : InHeader(r, m, N, ns, P, j)
Reading == \E r, m, line, N, ns, P : Within(r, m, line, N, ns, P)

AsWritten ==
  /\ pos = Size + 1
  /\ \A f \in Field \ {"header_key", "header_value"} :
       hd.str[f] = Written(current, f)
  /\ hd.body_type = CASE "length" \in current.names -> "CONTENT"
                      [] "chunked" \in current.names -> "CHUNK"
                      [] OTHER -> "NULL"
  /\ hd.body_type = "CONTENT" =>
       Contents(hd.content_length) = <<"1", "2">>
  /\ hd.keepalive = ("keep" \in current.names)

Refused == IF current.damaged = 0 THEN Size > BufSize ELSE pos <= current.damaged

Stage ==
  /\ phase = "reading" => Reading
  /\ phase \in {"done", "answer", "https"} => current.damaged = 0 /\ AsWritten
  /\ phase = "error" => Refused
  /\ phase = "over" /\ current.damaged # 0 => pos <= current.damaged

ReadInv ==
  /\ AllKept(heads, role)
  /\ role = "request" => cuts = 0
  /\ cuts = 0 => pos <= last + 1
  /\ phase = "garbled" => current.damaged = 0
  /\ cuts = 0 /\ ~current.longer /\ "bare" \notin current.names => Stage

(* The heads whose bytes a parser sees.                                    *)
LEMMA GoodSeen ==
  ASSUME TypeInv, NEW m, Version(current, m), NEW z \in Nat,
         z <= Len(m.bytes), pos - 1 <= Good(current)
  PROVE  /\ Sees(m.bytes, Good(current), z) /\ Good(current) \in Nat
         /\ Good(current) < z => current.damaged # 0
         /\ current.damaged # 0 => Good(current) + 1 = current.damaged
         /\ Len(m.bytes) = Size /\ Size \in Nat
<1>1. PICK ref : ref = m.bytes
  OBVIOUS
<1>2. PICK l \in Nat : l = Len(ref) /\ l = Size
  <2>1. Size \in Nat
    BY Streams
  <2> QED BY <1>1, <2>1 DEF Version, Size
<1>3. PICK d \in Nat : d = current.damaged
  <2>1. current \in Message
    BY Streams
  <2> QED BY <2>1 DEF Message
<1>4. \A i \in 1 .. l : Stream[i] = current.bytes[i]
  BY <1>2, Streams
<1>5. CASE d = 0
  <2>1. Good(current) = l
    BY <1>2, <1>3, <1>5 DEF Good, Size
  <2>2. current.bytes = ref
    BY <1>1, <1>3, <1>5 DEF Version
  <2>3. Agrees(l, ref)
    BY <1>4, <2>2 DEF Agrees
  <2> QED BY <1>1, <1>2, <1>3, <1>5, <2>1, <2>3 DEF Sees
<1>6. CASE d # 0
  <2>1. /\ d \in 2 .. l /\ Damageable(ref, d) /\ current.bytes[d][2] = "ctl"
        /\ \A i \in 1 .. l : i # d => current.bytes[i] = ref[i]
    BY <1>1, <1>2, <1>3, <1>6 DEF Version
  <2>2. PICK g \in Nat : g = d - 1
    BY <2>1
  <2>3. Good(current) = g /\ g + 1 = d /\ g < l
    BY <1>3, <1>6, <2>1, <2>2 DEF Good
  <2>4. Agrees(g, ref)
    <3> SUFFICES ASSUME NEW j \in Nat \ {0}, j <= g PROVE Stream[j] = ref[j]
      BY DEF Agrees
    <3>1. j \in 1 .. l /\ j # d
      BY <2>3
    <3> QED BY <1>4, <2>1, <3>1
  <2>5. Stream[g + 1][2] = "ctl"
    BY <1>4, <2>1, <2>3
  <2> QED BY <1>1, <1>2, <1>3, <1>6, <2>1, <2>3, <2>4, <2>5 DEF Sees
<1> QED BY <1>5, <1>6

(* How a call of a parser ends.                                            *)
LEMMA LineOutcome ==
  ASSUME TypeInv, cuts = 0 => pos <= last + 1, cuts = 0,
         NEW r, NEW m, NEW line, NEW N, NEW ns, NEW P,
         Within(r, m, line, N, ns, P), hd.handler = "line",
         "bare" \notin current.names,
         NEW to \in Nat, to >= last, NEW k, k = Parse(LineOf(role), to)
  PROVE  /\ LineOf(role) = Table /\ P[0] \in Nat \ {0} /\ P[0] <= Size
         /\ \/ Arrives(k, LineEnd(m.bytes, P[0]), P[0], to, Good(current))
            \/ Waits(LineOf(r), k, m.bytes, 0, P[0], LineStart(r), to, Good(current))
            \/ Refuses(k, P[0], Good(current))
<1>1. /\ r = role /\ Outline(m, r, line, N, ns, P) /\ Version(current, m)
      /\ pos - 1 <= Good(current) /\ InLine(r, m, P)
  BY DEF Within, InHeader
<1>2. LineOf(role) = Table
  BY DEF LineOf, Table
<1>3. r \in {"request", "response"}
  BY <1>1 DEF TypeInv, TypeOK
<1>4. "bare" \notin m.names
  BY <1>1 DEF Version
<1>5. PICK z : z = P[0]
  OBVIOUS
<1>6. line \in LinesOf(r) /\ z = Len(line) /\ Spells(m.bytes, 0, line)
      /\ Len(m.bytes) = P[N] + 2
  BY <1>1, <1>5 DEF Outline
<1>7. z \in Nat \ {0}
  BY <1>3, <1>6, LineLong
<1>8. z <= Len(m.bytes)
  <2>1. N \in Nat /\ \A j \in 0 .. N : P[j] \in Nat /\ P[j] <= P[N]
    BY <1>1, <1>4, OutlineOrder
  <2>2. z <= P[N] /\ P[N] \in Nat
    <3>1. 0 \in 0 .. N /\ N \in 0 .. N
      BY <2>1
    <3> QED BY <1>5, <2>1, <3>1
  <2> QED BY <1>6, <1>7, <2>2
<1>9. PICK good \in Nat : good = Good(current) /\ Sees(m.bytes, good, z)
  BY <1>1, <1>7, <1>8, GoodSeen
<1>10. z <= Size
  BY <1>1, <1>7, <1>8, GoodSeen
<1>11. Leads(LineOf(r), m.bytes, 0, z, good, LineStart(r), LineEnd(m.bytes, z))
  <2>1. Agrees(good, m.bytes)
    BY <1>9 DEF Sees
  <2> QED BY <1>3, <1>6, <2>1, LineLeads
<1>12. LineEnd(m.bytes, z).rc # "AGAIN"
  BY DEF LineEnd
<1>13. InSection(LineOf(r), m.bytes, 0, z, LineStart(r))
  BY <1>1, <1>5 DEF InLine
<1>14. to >= pos - 1
  BY TypeParts
<1>15. LineOf(r) = Table /\ k = Parse(LineOf(r), to)
  BY <1>1, <1>2
<1>16. PICK table, k0, R : table = LineOf(r) /\ k0 = LineStart(r) /\ R = LineEnd(m.bytes, z)
  OBVIOUS
<1>17. \/ Arrives(k, R, z, to, good)
       \/ Waits(table, k, m.bytes, 0, z, k0, to, good)
       \/ Refuses(k, z, good)
  <2>1. 0 \in Nat
    OBVIOUS
  <2> QED BY <1>7, <1>9, <1>11, <1>12, <1>13, <1>14, <1>15, <1>16, <2>1, Outcome
<1> QED BY <1>2, <1>5, <1>7, <1>9, <1>10, <1>16, <1>17

(* What a parser that is behind the j-th header is to reach.               *)
Reached(m, N, ns, P, j, kd, kl, vd, vl) ==
  LET base == Open(m.bytes, P[0], Blank)
  IN  IF j = N THEN HeadEnd(P[N], base, kd, kl, vd, vl)
               ELSE HeaderEnd(P[j], ns[j + 1], base)

LEMMA HeaderOutcome ==
  ASSUME TypeInv, NEW r, NEW m, NEW line, NEW N, NEW ns, NEW P,
         Within(r, m, line, N, ns, P), hd.handler = "headers",
         "bare" \notin current.names,
         NEW to \in Nat, to >= last, NEW k, k = Parse(HeaderLine, to),
         NEW j, j \in 0 .. N, NEW kd, NEW kl, NEW vd, NEW vl, NEW k0,
         k0 = HeadStart(P[j], Open(m.bytes, P[0], Blank), kd, kl, vd, vl),
         InSection(HeaderLine, m.bytes, P[j], Mark(N, P, j), k0)
  PROVE  /\ HeaderLine = Table /\ Mark(N, P, j) \in Nat /\ Mark(N, P, j) <= Size
         /\ \/ Arrives(k, Reached(m, N, ns, P, j, kd, kl, vd, vl), Mark(N, P, j), to,
                     Good(current))
            \/ Waits(HeaderLine, k, m.bytes, P[j], Mark(N, P, j), k0, to, Good(current))
            \/ Refuses(k, Mark(N, P, j), Good(current))
<1>1. /\ r = role /\ Outline(m, r, line, N, ns, P) /\ Version(current, m)
      /\ pos - 1 <= Good(current)
  BY DEF Within
<1>2. HeaderLine = Table
  BY DEF Table
<1>3. "bare" \notin m.names
  BY <1>1 DEF Version
<1>4. /\ N \in Nat /\ \A i \in 0 .. N : P[i] \in Nat /\ P[i] <= P[N]
      /\ \A i \in 1 .. N : ns[i] \in Valued
  BY <1>1, <1>3, OutlineOrder
<1>5. PICK z, a : z = Mark(N, P, j) /\ a = P[j]
  OBVIOUS
<1>6. /\ Len(m.bytes) = P[N] + 2 /\ Spells(m.bytes, P[N], Sep(CRLF))
      /\ \A i \in 1 .. N : P[i] = P[i - 1] + Len(Headers[ns[i]])
                           /\ Spells(m.bytes, P[i - 1], Headers[ns[i]])
  BY <1>1 DEF Outline
<1>7. z \in Nat /\ a \in Nat /\ z <= Len(m.bytes)
  <2>1. N \in 0 .. N /\ (j # N => j + 1 \in 0 .. N)
    BY <1>4
  <2> QED BY <1>4, <1>5, <1>6, <2>1 DEF Mark
<1>8. PICK good \in Nat : good = Good(current) /\ Sees(m.bytes, good, z)
  BY <1>1, <1>7, GoodSeen
<1>9. z <= Size
  BY <1>1, <1>7, GoodSeen
<1>10. PICK base, R : /\ base = Open(m.bytes, P[0], Blank)
                      /\ R = Reached(m, N, ns, P, j, kd, kl, vd, vl)
  OBVIOUS
<1>11. Leads(HeaderLine, m.bytes, a, z, good, k0, R) /\ R.rc # "AGAIN"
  <2>1. k0 = HeadStart(a, base, kd, kl, vd, vl)
    BY <1>5, <1>10
  <2>2. CASE j = N
    <3>1. z = a + 2 /\ R = HeadEnd(a, base, kd, kl, vd, vl)
      BY <1>5, <1>10, <2>2 DEF Mark, Reached
    <3>2. Spells(m.bytes, a, Sep(CRLF))
      BY <1>5, <1>6, <2>2
    <3>3. R.rc # "AGAIN"
      BY <3>1 DEF HeadEnd
    <3> QED BY <1>7, <2>1, <3>1, <3>2, <3>3, EndLeads
  <2>3. CASE j # N
    <3>1. PICK i : i = j + 1
      OBVIOUS
    <3>2. i \in 1 .. N /\ i - 1 = j
      BY <1>4, <2>3, <3>1
    <3>3. PICK x \in Valued : x = ns[i]
      BY <1>4, <3>2
    <3>4. z = a + Len(Headers[x]) /\ Spells(m.bytes, a, Headers[x])
      BY <1>5, <1>6, <2>3, <3>1, <3>2, <3>3 DEF Mark
    <3>5. R = HeaderEnd(a, x, base)
      BY <1>5, <1>10, <2>3, <3>1, <3>3 DEF Reached
    <3>6. R.rc # "AGAIN"
      BY <3>5 DEF HeaderEnd
    <3> QED BY <1>7, <2>1, <3>4, <3>5, <3>6, HeaderLeads
  <2> QED BY <2>2, <2>3
<1>12. to >= pos - 1
  BY TypeParts
<1>13. InSection(HeaderLine, m.bytes, a, z, k0)
  BY <1>5
<1>14. \/ Arrives(k, R, z, to, good)
       \/ Waits(HeaderLine, k, m.bytes, a, z, k0, to, good)
       \/ Refuses(k, z, good)
  BY <1>2, <1>7, <1>8, <1>11, <1>12, <1>13, Outcome
<1> QED BY <1>2, <1>5, <1>7, <1>8, <1>9, <1>10, <1>14

LEMMA VersionSame ==
  ASSUME heads' = heads
  PROVE  /\ current' = current /\ Size' = Size /\ Good(current)' = Good(current)
         /\ \A m : Version(current, m) => Version(current, m)'
<1>1. PICK c : c = current
  OBVIOUS
<1>2. current' = c
  BY <1>1 DEF current
<1>3. \A m : Version(c, m) => Version(current, m)'
  BY <1>2 DEF Version
<1> QED BY <1>1, <1>2, <1>3 DEF Size, Good

(* What the meaning of a head depends on.                                  *)
Carried(h, g) ==
  /\ g.keepalive = h.keepalive /\ g.content_length = h.content_length
  /\ g.transfer_encoding = h.transfer_encoding /\ g.body_type = h.body_type
LEMMA MeansCarried ==
  ASSUME NEW r, NEW h, NEW g, Carried(h, g), NEW done, Means(r, h, done)
  PROVE  Means(r, g, done)
BY DEF Carried, Means

LEMMA Saved ==
  ASSUME TypeInv, NEW k, hd' = [hd EXCEPT !.state = k.state, !.str = k.str]
  PROVE  /\ hd'.handler = hd.handler /\ hd'.state = k.state /\ hd'.str = k.str
         /\ Carried(hd, hd')
BY TypeParts DEF HeadState, Carried

(* It waits for more, and nothing is lost.                                 *)
LEMMA LineResumes ==
  ASSUME TypeInv, UNCHANGED <<role, heads>>,
         NEW r, NEW m, NEW line, NEW N, NEW ns, NEW P, Within(r, m, line, N, ns, P),
         r = "request", hd.handler = "line",
         NEW k, Whole(k), NEW to \in Nat, k.p = to + 1,
         Waits(LineOf(r), k, m.bytes, 0, P[0], LineStart(r), to, Good(current)),
         pos' = k.p, hd' = [hd EXCEPT !.state = k.state, !.str = k.str]
  PROVE  Within(r, m, line, N, ns, P)'
<1>1. /\ r = role /\ Outline(m, r, line, N, ns, P) /\ Version(current, m)
      /\ InLine(r, m, P)
  BY DEF Within, InHeader
<1>2. /\ hd'.handler = "line" /\ hd'.state = k.state /\ hd'.str = k.str
      /\ Carried(hd, hd')
  BY Saved
<1>3. PICK h : h = hd'
  OBVIOUS
<1>4. Means(r, hd, {})'
  <2>1. PICK g : g = hd
    OBVIOUS
  <2>2. Means(r, g, {}) /\ Carried(g, h)
    BY <1>1, <1>2, <1>3, <2>1 DEF InLine
  <2>3. Means(r, h, {})
    BY <2>2, MeansCarried
  <2> QED BY <1>3, <2>3, SameMeans
<1>5. /\ k.rc = "AGAIN" /\ to < P[0] /\ to <= Good(current)
      /\ \E E : Runs(LineOf(r), E, 0, to, m.bytes, LineStart(r)) /\ E[to] = k
  BY DEF Waits
<1>6. PICK E : Runs(LineOf(r), E, 0, to, m.bytes, LineStart(r)) /\ E[to] = k
  BY <1>5
<1>7. InSection(LineOf(r), m.bytes, 0, P[0], LineStart(r))'
  <2>1. E[to] = [state |-> hd'.state, str |-> hd'.str, p |-> pos', rc |-> "AGAIN"]
    BY <1>2, <1>5, <1>6 DEF Whole
  <2>2. 0 \in Nat /\ to = pos' - 1 /\ 0 <= to
    OBVIOUS
  <2>3. PICK table, k0 : table = LineOf(r) /\ k0 = LineStart(r)
    OBVIOUS
  <2>4. Runs(table, E, 0, to, m.bytes, k0)
    BY <1>6, <2>3
  <2>5. InSection(table, m.bytes, 0, P[0], k0)'
    BY <1>5, <2>1, <2>2, <2>4, InSectionNext
  <2> QED BY <2>3, <2>5
<1>8. InLine(r, m, P)'
  BY <1>2, <1>4, <1>7 DEF InLine
<1>9. (pos - 1 <= Good(current))'
  BY <1>5, VersionSame
<1> QED BY <1>1, <1>8, <1>9, VersionSame DEF Within

LEMMA HeaderResumes ==
  ASSUME TypeInv, UNCHANGED <<role, heads>>,
         NEW r, NEW m, NEW line, NEW N, NEW ns, NEW P, Within(r, m, line, N, ns, P),
         hd.handler = "headers", NEW j, j \in 0 .. N, P[j] \in Nat,
         Means(r, hd, Passed(ns, j)),
         NEW kd, NEW kl, NEW vd, NEW vl, NEW k0,
         k0 = HeadStart(P[j], Open(m.bytes, P[0], Blank), kd, kl, vd, vl),
         InSection(HeaderLine, m.bytes, P[j], Mark(N, P, j), k0),
         NEW k, Whole(k), NEW to \in Nat, k.p = to + 1, to >= pos - 1,
         Waits(HeaderLine, k, m.bytes, P[j], Mark(N, P, j), k0, to, Good(current)),
         pos' = k.p, hd' = [hd EXCEPT !.state = k.state, !.str = k.str]
  PROVE  Within(r, m, line, N, ns, P)'
<1>1. r = role /\ Outline(m, r, line, N, ns, P) /\ Version(current, m)
  BY DEF Within
<1>2. /\ hd'.handler = "headers" /\ hd'.state = k.state /\ hd'.str = k.str
      /\ Carried(hd, hd')
  BY Saved
<1>3. PICK h, done : h = hd' /\ done = Passed(ns, j)
  OBVIOUS
<1>4. Means(r, hd, done)'
  <2>1. PICK g : g = hd
    OBVIOUS
  <2>2. Means(r, g, done) /\ Carried(g, h)
    BY <1>2, <1>3, <2>1
  <2>3. Means(r, h, done)
    BY <2>2, MeansCarried
  <2> QED BY <1>3, <2>3, SameMeans
<1>5. PICK a, z : a \in Nat /\ a = P[j] /\ z = Mark(N, P, j)
  OBVIOUS
<1>6. /\ k.rc = "AGAIN" /\ to < z /\ to <= Good(current)
      /\ \E E : Runs(HeaderLine, E, a, to, m.bytes, k0) /\ E[to] = k
  BY <1>5 DEF Waits
<1>7. PICK E : Runs(HeaderLine, E, a, to, m.bytes, k0) /\ E[to] = k
  BY <1>6
<1>8. InSection(HeaderLine, m.bytes, a, z, k0)'
  <2>1. E[to] = [state |-> hd'.state, str |-> hd'.str, p |-> pos', rc |-> "AGAIN"]
    BY <1>2, <1>6, <1>7 DEF Whole
  <2>2. to = pos' - 1
    OBVIOUS
  <2>3. a <= to
    <3>1. a <= pos - 1 /\ pos \in Nat
      BY <1>5, TypeParts DEF InSection
    <3> QED BY <1>5, <3>1
  <2> QED BY <1>5, <1>6, <1>7, <2>1, <2>2, <2>3, InSectionNext
<1>9. InHeader(r, m, N, ns, P, j)'
  BY <1>2, <1>3, <1>4, <1>5, <1>8 DEF InHeader
<1>10. (pos - 1 <= Good(current))'
  BY <1>6, VersionSame
<1> QED BY <1>1, <1>9, <1>10, VersionSame DEF Within

LEMMA FixedSame ==
  ASSUME NEW base \in Strs
  PROVE  Fixed(base, base["header_key"].data, base["header_key"].len,
               base["header_value"].data, base["header_value"].len) = base
<1>1. base = [f \in Field |-> base[f]] /\ \A f \in Field : base[f] \in Place
  BY DEF Strs
<1>2. "header_key" \in Field /\ "header_value" \in Field
  BY DEF Field
<1>3. \A x \in Place : [data |-> x.data, len |-> x.len] = x
  BY DEF Place
<1>4. PICK F : F = Fixed(base, base["header_key"].data, base["header_key"].len,
                         base["header_value"].data, base["header_value"].len)
  OBVIOUS
<1>5. \A f \in Field : F[f] = base[f]
  BY <1>1, <1>2, <1>3, <1>4 DEF Fixed
<1>6. F = [f \in Field |-> F[f]]
  BY <1>4 DEF Fixed
<1> QED BY <1>1, <1>4, <1>5, <1>6

LEMMA MarkAhead ==
  ASSUME NEW r, NEW m, NEW line, NEW N, NEW ns, NEW P,
         Outline(m, r, line, N, ns, P), "bare" \notin m.names, NEW j, j \in 0 .. N
  PROVE  P[j] \in Nat /\ Mark(N, P, j) \in Nat /\ P[j] < Mark(N, P, j)
<1>1. /\ N \in Nat /\ \A i \in 0 .. N : P[i] \in Nat
      /\ \A i \in 1 .. N : P[i - 1] < P[i]
  BY OutlineOrder
<1>2. CASE j = N
  BY <1>1, <1>2 DEF Mark
<1>3. CASE j # N
  <2>1. j + 1 \in 1 .. N /\ j + 1 \in 0 .. N /\ (j + 1) - 1 = j
    BY <1>1, <1>3
  <2>2. P[(j + 1) - 1] < P[j + 1]
    BY <1>1, <2>1
  <2> QED BY <1>1, <1>3, <2>1, <2>2 DEF Mark
<1> QED BY <1>2, <1>3

(* The line, or a header, is complete, and what follows begins.            *)
LEMMA Advances ==
  ASSUME UNCHANGED <<role, heads>>,
         NEW r, NEW m, NEW line, NEW N, NEW ns, NEW P, Within(r, m, line, N, ns, P),
         "bare" \notin current.names, NEW j, j \in 0 .. N,
         hd'.handler = "headers", hd'.state = "s_start",
         NEW h, h = hd', Means(r, h, Passed(ns, j)), pos' = P[j] + 1,
         P[j] <= Good(current),
         NEW kd, NEW kl, NEW vd, NEW vl,
         hd'.str = Fixed(Open(m.bytes, P[0], Blank), kd, kl, vd, vl)
  PROVE  Within(r, m, line, N, ns, P)'
<1>1. r = role /\ Outline(m, r, line, N, ns, P) /\ Version(current, m)
  BY DEF Within
<1>2. "bare" \notin m.names
  BY <1>1 DEF Version
<1>3. PICK a, z, done :
        /\ a \in Nat /\ z \in Nat /\ a < z
        /\ a = P[j] /\ z = Mark(N, P, j) /\ done = Passed(ns, j)
  BY <1>1, <1>2, MarkAhead
<1>4. Means(r, hd, done)'
  BY <1>3, SameMeans
<1>5. PICK k0 : k0 = HeadStart(a, Open(m.bytes, P[0], Blank), kd, kl, vd, vl)
  OBVIOUS
<1>6. InSection(HeaderLine, m.bytes, a, z, k0)'
  <2>1. k0 = [state |-> hd'.state, str |-> hd'.str, p |-> pos', rc |-> "AGAIN"]
    BY <1>3, <1>5 DEF HeadStart
  <2>2. a = pos' - 1
    BY <1>3
  <2> QED BY <1>3, <2>1, <2>2, InSectionFresh
<1>7. InHeader(r, m, N, ns, P, j)'
  BY <1>3, <1>4, <1>5, <1>6 DEF InHeader
<1>8. (pos - 1 <= Good(current))'
  BY <1>3, VersionSame
<1> QED BY <1>1, <1>7, <1>8, VersionSame DEF Within

LEMMA LineCompletes ==
  ASSUME TypeInv, UNCHANGED <<role, heads>>,
         NEW r, NEW m, NEW line, NEW N, NEW ns, NEW P, Within(r, m, line, N, ns, P),
         hd.handler = "line", "bare" \notin current.names,
         NEW k, k.str \in Strs, NEW to,
         Arrives(k, LineEnd(m.bytes, P[0]), P[0], to, Good(current)), pos' = k.p,
         hd'.handler = "headers", hd'.state = "s_start", hd'.str = k.str,
         Carried(hd, hd')
  PROVE  Within(r, m, line, N, ns, P)'
<1>1. /\ r = role /\ Outline(m, r, line, N, ns, P) /\ Version(current, m)
      /\ InLine(r, m, P)
  BY DEF Within, InHeader
<1>2. "bare" \notin m.names /\ N \in Nat /\ 0 \in 0 .. N
  BY <1>1 DEF Version, Outline
<1>3. PICK base : base = k.str
  OBVIOUS
<1>4. k = LineEnd(m.bytes, P[0]) /\ P[0] <= Good(current)
  BY DEF Arrives
<1>5. base = Open(m.bytes, P[0], Blank) /\ pos' = P[0] + 1
  BY <1>3, <1>4 DEF LineEnd
<1>6. hd'.str = Fixed(Open(m.bytes, P[0], Blank), base["header_key"].data,
                      base["header_key"].len, base["header_value"].data,
                      base["header_value"].len)
  <2>1. Fixed(base, base["header_key"].data, base["header_key"].len,
              base["header_value"].data, base["header_value"].len) = base
    BY <1>3, FixedSame
  <2> QED BY <1>3, <1>5, <2>1
<1>7. PICK h : h = hd'
  OBVIOUS
<1>8. Means(r, h, Passed(ns, 0))
  <2>1. PICK g : g = hd
    OBVIOUS
  <2>2. Means(r, g, {}) /\ Carried(g, h)
    BY <1>1, <1>7, <2>1 DEF InLine
  <2>3. Passed(ns, 0) = {}
    BY DEF Passed
  <2> QED BY <2>2, <2>3, MeansCarried
<1> QED BY <1>2, <1>4, <1>5, <1>6, <1>7, <1>8, Advances

LEMMA HeaderCompletes ==
  ASSUME TypeInv, UNCHANGED <<role, heads>>,
         NEW r, NEW m, NEW line, NEW N, NEW ns, NEW P, Within(r, m, line, N, ns, P),
         hd.handler = "headers", "bare" \notin current.names,
         NEW j, j \in 0 .. N, j # N, Means(r, hd, Passed(ns, j)),
         NEW kd, NEW kl, NEW vd, NEW vl, NEW k, k.str \in Strs, NEW to,
         Arrives(k, Reached(m, N, ns, P, j, kd, kl, vd, vl), Mark(N, P, j), to, Good(current))
  PROVE  /\ k.rc = "OK" /\ \E x : Says(k, x)
         /\ (/\ pos' = k.p
             /\ hd' = IF role = "request" THEN RequestHeader(k) ELSE ResponseHeader(k))
            => Within(r, m, line, N, ns, P)'
<1>1. r = role /\ Outline(m, r, line, N, ns, P) /\ Version(current, m)
  BY DEF Within
<1>2. "bare" \notin m.names
  BY <1>1 DEF Version
<1>3. PICK i \in 1 .. N : i = j + 1 /\ i - 1 = j /\ i \in 0 .. N /\ N \in Nat
  <2>1. N \in Nat
    BY <1>1 DEF Outline
  <2> QED BY <2>1
<1>4. PICK x \in Valued : x = ns[i]
  BY <1>1, <1>2, OutlineOrder
<1>5. PICK a, z, base, good :
        /\ a \in Nat /\ z \in Nat
        /\ a = P[j] /\ z = P[i] /\ base = Open(m.bytes, P[0], Blank)
        /\ good = Good(current)
  <2>1. P[j] \in Nat /\ P[i] \in Nat
    BY <1>1, <1>2, <1>3, OutlineOrder
  <2> QED BY <2>1
<1>6. k = HeaderEnd(a, x, base) /\ z <= good
  BY <1>3, <1>4, <1>5 DEF Arrives, Reached, Mark
<1>7. z = a + Len(Headers[x]) /\ Spells(m.bytes, a, Headers[x])
  BY <1>1, <1>3, <1>4, <1>5 DEF Outline
<1>8. Agrees(z, m.bytes)
  <2>1. z <= Len(m.bytes)
    <3>1. P[i] <= P[N] /\ P[N] \in Nat /\ P[i] \in Nat
      <4>1. N \in 0 .. N
        BY <1>3
      <4> QED BY <1>1, <1>2, <1>3, <4>1, OutlineOrder
    <3>2. Len(m.bytes) = P[N] + 2
      BY <1>1 DEF Outline
    <3> QED BY <1>5, <3>1, <3>2
  <2>2. pos - 1 <= Good(current)
    BY DEF Within
  <2>3. Sees(m.bytes, good, z) /\ good \in Nat
    BY <1>1, <1>5, <2>1, <2>2, GoodSeen
  <2> QED BY <1>5, <1>6, <2>3 DEF Sees, Agrees
<1>9. k.str = Fixed(base, a + 1, Len(Names[x]),
                    ((a + Len(Names[x])) + 1 + Skips[x]) + 1, Widths[x])
      /\ k.rc = "OK" /\ k.p = z + 1
  BY <1>6, <1>7 DEF HeaderEnd
<1>10. Says(k, x)
  <2>1. z <= z
    BY <1>5
  <2> QED BY <1>5, <1>7, <1>8, <1>9, <2>1, HeaderSays
<1>11. ASSUME pos' = k.p,
              hd' = IF role = "request" THEN RequestHeader(k) ELSE ResponseHeader(k)
       PROVE  Within(r, m, line, N, ns, P)'
  <2>1. PICK h : h = hd'
    OBVIOUS
  <2>2. PICK done : done = Passed(ns, j)
    OBVIOUS
  <2>3. done \cup {x} = Passed(ns, i)
    <3>1. 1 .. i = (1 .. j) \cup {i}
      BY <1>3
    <3> QED BY <1>4, <2>2, <3>1 DEF Passed
  <2>4. Consistent(done \cup {x})
    <3>1. Consistent(m.names) /\ m.names = {ns[t] : t \in 1 .. N}
      BY <1>1 DEF Outline
    <3>2. Passed(ns, i) \subseteq m.names
      BY <1>3, <3>1 DEF Passed
    <3> QED BY <2>3, <3>1, <3>2 DEF Consistent
  <2>5. Means(r, h, done \cup {x})
    <3>1. hd \in HeadState /\ r \in {"request", "response"}
      BY <1>1, TypeParts
    <3>2. h = IF r = "request" THEN RequestHeader(k) ELSE ResponseHeader(k)
      BY <1>1, <1>11, <2>1
    <3>3. Means(r, hd, done)
      BY <2>2
    <3> QED BY <1>10, <2>4, <3>1, <3>2, <3>3, MeansNext
  <2>6. /\ hd'.handler = "headers" /\ hd'.state = "s_start" /\ hd'.str = k.str
    <3>1. hd \in HeadState
      BY TypeParts
    <3> QED BY <1>11, <3>1 DEF HeadState, RequestHeader, ResponseHeader
  <2>7. Means(r, h, Passed(ns, i)) /\ pos' = P[i] + 1 /\ P[i] <= Good(current)
    BY <1>5, <1>6, <1>9, <1>11, <2>3, <2>5
  <2>8. PICK n, l, w : n = Len(Names[x]) /\ l = ((a + Len(Names[x])) + 1 + Skips[x]) + 1
                       /\ w = Widths[x]
    OBVIOUS
  <2>9. hd'.str = Fixed(Open(m.bytes, P[0], Blank), a + 1, n, l, w)
    BY <1>5, <1>9, <2>6, <2>8
  <2> QED BY <1>3, <2>1, <2>6, <2>7, <2>9, Advances
<1> QED BY <1>9, <1>10, <1>11

(* A number is no ERROR, and nothing is neither.                           *)
LEMMA Numbers ==
  ASSUME NEW s, s = <<"1", "2">> \/ DOMAIN s = {}
  PROVE  l_atoi(s) # <<"ERROR">>
<1>1. PICK e : e = <<"ERROR">>
  OBVIOUS
<1>2. DOMAIN e = 1 .. 1 /\ e[1] = "ERROR"
  BY <1>1
<1>3. CASE s = <<"1", "2">>
  <2>1. DOMAIN s = 1 .. 2 /\ s[1] = "1"
    BY <1>3
  <2>2. s # e
    BY <1>2, <2>1
  <2>3. \A i \in DOMAIN s : s[i] \in Digit
    BY <1>3 DEF Digit
  <2>4. l_atoi(s) = s
    BY <2>3 DEF l_atoi
  <2> QED BY <1>1, <2>2, <2>4
<1>4. CASE DOMAIN s = {}
  <2>1. l_atoi(s) = s
    BY <1>4 DEF l_atoi
  <2>2. 1 \in 1 .. 1
    OBVIOUS
  <2>3. s # e
    BY <1>2, <1>4, <2>2
  <2> QED BY <1>1, <2>1, <2>3
<1> QED BY <1>3, <1>4

(* What is written in a head is what was found behind its line.            *)
LEMMA WrittenFound ==
  ASSUME NEW m, NEW r, NEW line, NEW N, NEW ns, NEW P, Outline(m, r, line, N, ns, P),
         "bare" \notin m.names, NEW c \in Message, c.bytes = m.bytes, NEW f \in Field
  PROVE  Written(c, f) = Found(m.bytes, P[0], f)
<1>0. PICK ref : ref = m.bytes
  OBVIOUS
<1>1. PICK n \in Nat : ref = m.bytes /\ n = P[N] + 2 /\ n = Len(ref)
  <2>1. Len(m.bytes) = P[N] + 2
    BY DEF Outline
  <2>2. P[N] \in Nat
    <3>1. N \in Nat /\ \A j \in 0 .. N : P[j] \in Nat
      BY OutlineOrder
    <3> QED BY <3>1
  <2> QED BY <1>0, <2>1, <2>2
<1>2. DOMAIN c.bytes = 1 .. n
  <2>1. c.bytes \in Bytes
    BY DEF Message, Bytes
  <2>2. PICK S : S = Tag \X Token
    OBVIOUS
  <2>3. ref \in Seq(S)
    BY <1>1, <2>1, <2>2 DEF Bytes
  <2> QED BY <1>1, <2>3
<1>3. {i \in DOMAIN c.bytes : c.bytes[i][1] = f} = Tagged(ref, n, f)
  BY <1>1, <1>2 DEF Tagged
<1>4. Tagged(ref, n, f) = Tagged(ref, P[0], f)
  BY <1>1, OutlineOrder
<1>5. PICK is : is = Tagged(ref, P[0], f) /\ is = {i \in DOMAIN c.bytes : c.bytes[i][1] = f}
  BY <1>3, <1>4
<1>6. Written(c, f) = IF is = {} THEN NoString
                      ELSE [data |-> CHOOSE i \in is : \A j \in is : i <= j,
                            len |-> Cardinality(is)]
  BY <1>5, Zenon DEF Written
<1>7. Found(ref, P[0], f) = IF is = {} THEN NoString
                            ELSE [data |-> CHOOSE i \in is : \A j \in is : i <= j,
                                  len |-> Cardinality(is)]
  BY <1>5, Zenon DEF Found
<1> QED BY <1>1, <1>6, <1>7

(* The empty line is read.                                                 *)
LEMMA HeadSound ==
  ASSUME TypeInv,
         NEW r, NEW m, NEW line, NEW N, NEW ns, NEW P, Within(r, m, line, N, ns, P),
         "bare" \notin current.names, Means(r, hd, Passed(ns, N)),
         NEW kd, NEW kl, NEW vd, NEW vl, NEW k, NEW to,
         Arrives(k, Reached(m, N, ns, P, N, kd, kl, vd, vl), Mark(N, P, N), to, Good(current))
  PROVE  /\ k.rc = "HTTP_PARSE_HEADER_DONE" /\ current.damaged = 0
         /\ k.p = Size + 1 /\ current.bytes = m.bytes /\ Passed(ns, N) = current.names
         /\ k.str = Fixed(Open(m.bytes, P[0], Blank), kd, kl, vd, vl)
         /\ l_atoi(Contents(hd.content_length)) # <<"ERROR">>
<1>1. r = role /\ Outline(m, r, line, N, ns, P) /\ Version(current, m)
      /\ pos - 1 <= Good(current)
  BY DEF Within
<1>2. "bare" \notin m.names
  BY <1>1 DEF Version
<1>3. PICK z \in Nat : z = P[N] + 2 /\ z = Len(m.bytes)
  <2>1. P[N] \in Nat
    <3>1. N \in Nat /\ \A j \in 0 .. N : P[j] \in Nat
      BY <1>1, <1>2, OutlineOrder
    <3> QED BY <3>1
  <2> QED BY <1>1, <2>1 DEF Outline
<1>4. k = HeadEnd(P[N], Open(m.bytes, P[0], Blank), kd, kl, vd, vl) /\ z <= Good(current)
  BY <1>3 DEF Arrives, Reached, Mark
<1>5. z = Size /\ Good(current) \in Nat
      /\ (current.damaged # 0 => Good(current) + 1 = current.damaged)
  <2>1. z <= Len(m.bytes)
    BY <1>3
  <2> QED BY <1>1, <1>3, <2>1, GoodSeen
<1>6. current.damaged = 0
  <2> SUFFICES ASSUME current.damaged # 0 PROVE FALSE
    OBVIOUS
  <2>1. current.damaged \in 2 .. z
    BY <1>1, <1>3 DEF Version
  <2> QED BY <1>4, <1>5, <2>1
<1>7. current.bytes = m.bytes
  BY <1>1, <1>6 DEF Version
<1>8. Passed(ns, N) = current.names
  BY <1>1 DEF Version, Outline, Passed
<1>9. k.rc = "HTTP_PARSE_HEADER_DONE" /\ k.p = Size + 1
      /\ k.str = Fixed(Open(m.bytes, P[0], Blank), kd, kl, vd, vl)
  BY <1>3, <1>4, <1>5 DEF HeadEnd
<1>10. Contents(hd.content_length) = <<"1", "2">> \/ DOMAIN Contents(hd.content_length) = {}
  <2>1. Contents(hd.content_length) = <<"1", "2">> \/ hd.content_length = NoString
    BY DEF Means
  <2>2. DOMAIN Contents(NoString) = {}
    BY DEF Contents, NoString
  <2> QED BY <2>1, <2>2
<1> QED BY <1>6, <1>7, <1>8, <1>9, <1>10, Numbers

LEMMA HeadWritten ==
  ASSUME TypeInv, UNCHANGED <<role, heads>>,
         NEW r, NEW m, NEW line, NEW N, NEW ns, NEW P, Within(r, m, line, N, ns, P),
         "bare" \notin current.names, Means(r, hd, current.names),
         current.bytes = m.bytes, NEW kd, NEW kl, NEW vd, NEW vl,
         hd'.str = Fixed(Open(m.bytes, P[0], Blank), kd, kl, vd, vl),
         pos' = Size + 1, hd'.keepalive = hd.keepalive,
         hd'.content_length = hd.content_length,
         hd'.body_type = IF role = "request" THEN BodyType(hd) ELSE hd.body_type
  PROVE  AsWritten'
<1>1. r = role /\ Outline(m, r, line, N, ns, P) /\ Version(current, m)
  BY DEF Within
<1>2. "bare" \notin m.names
  BY <1>1 DEF Version
<1>3. PICK c \in Message : c = current
  BY Streams
<1>4. current' = c /\ Size' = Size
  BY <1>3, VersionSame
<1>5. ASSUME NEW f \in Field \ {"header_key", "header_value"}
      PROVE  hd'.str[f] = Written(c, f)
  <2>1. f \in Field /\ f # Blank
    BY Blanks
  <2>2. hd'.str[f] = Open(m.bytes, P[0], Blank)[f]
    BY <2>1 DEF Fixed
  <2>3. hd'.str[f] = Found(m.bytes, P[0], f)
    BY <2>1, <2>2 DEF Open
  <2>4. Written(c, f) = Found(m.bytes, P[0], f)
    BY <1>1, <1>2, <1>3, WrittenFound
  <2> QED BY <2>3, <2>4
<1>6. PICK done : done = c.names
  OBVIOUS
<1>7. Means(r, hd, done) /\ Consistent(done)
  BY <1>1, <1>3, <1>6 DEF Outline, Version
<1>8. hd'.keepalive = ("keep" \in done)
  BY <1>7, TypeParts DEF Means, HeadState
<1>9. hd'.body_type = CASE "length" \in done -> "CONTENT"
                        [] "chunked" \in done -> "CHUNK"
                        [] OTHER -> "NULL"
  <2>1. CASE r = "request"
    <3>1. hd.transfer_encoding \in BOOLEAN
      BY TypeParts DEF HeadState
    <3>2. /\ (hd.transfer_encoding <=> "chunked" \in done) /\ hd.body_type = "NULL"
          /\ (hd.content_length # NoString <=> "length" \in done)
      BY <1>7, <2>1 DEF Means
    <3> QED BY <1>1, <1>7, <2>1, <3>1, <3>2 DEF BodyType, Consistent
  <2>2. CASE r # "request"
    <3>1. r = "response"
      BY <1>1, <2>2, TypeParts
    <3> QED BY <1>1, <1>7, <2>2, <3>1 DEF Means
  <2> QED BY <2>1, <2>2
<1>10. PICK s : s = hd.content_length /\ s = hd'.content_length
  OBVIOUS
<1>11. hd'.body_type = "CONTENT" => Contents(s)' = <<"1", "2">>
  <2> SUFFICES ASSUME hd'.body_type = "CONTENT"
               PROVE  Contents(s)' = <<"1", "2">>
    OBVIOUS
  <2>1. "length" \in done
    BY <1>9
  <2>2. Contents(s) = <<"1", "2">>
    BY <1>7, <1>10, <2>1 DEF Means
  <2> QED BY <2>2, SameContents
<1>12. (hd.body_type = "CONTENT" => Contents(hd.content_length) = <<"1", "2">>)'
  BY <1>10, <1>11
<1>13. (hd.body_type = CASE "length" \in current.names -> "CONTENT"
                         [] "chunked" \in current.names -> "CHUNK"
                         [] OTHER -> "NULL")'
  BY <1>4, <1>6, <1>9
<1>14. (hd.keepalive = ("keep" \in current.names))'
  BY <1>4, <1>6, <1>8
<1>15. (\A f \in Field \ {"header_key", "header_value"} : hd.str[f] = Written(current, f))'
  BY <1>4, <1>5
<1> QED BY <1>4, <1>12, <1>13, <1>14, <1>15 DEF AsWritten

LEMMA UriShort ==
  ASSUME NEW r \in {"request", "response"}, NEW line \in LinesOf(r),
         NEW ref, Spells(ref, 0, line)
  PROVE  Found(ref, Len(line), "uri").len <= 2
<1>1. PICK E : E = [j \in Nat |-> LineStart(r)]
  OBVIOUS
<1>2. Agrees(0, ref)
  BY DEF Agrees
<1>3. Runs(LineOf(r), E, 0, 0, ref, LineStart(r))
  BY <1>1 DEF Runs
<1>4. 0 \in Nat
  OBVIOUS
<1> QED BY <1>2, <1>3, <1>4, LineEnded DEF Ended

(* A step that reads, and what it must show.                               *)
LEMMA Framed ==
  ASSUME ReadInv, UNCHANGED <<role, heads>>, phase' # "garbled",
         role = "request" => cuts' = 0, cuts' = 0 => pos' <= last' + 1,
         cuts' = 0 /\ ~current.longer /\ "bare" \notin current.names => Stage'
  PROVE  ReadInv'
<1>1. AllKept(heads, role)'
  BY DEF ReadInv, AllKept, Known, Kept
<1>2. (~current.longer /\ "bare" \notin current.names)'
        => ~current.longer /\ "bare" \notin current.names
  BY VersionSame
<1> QED BY <1>1, <1>2 DEF ReadInv

LEMMA Refusal ==
  ASSUME TypeInv, heads' = heads, pos' = pos, NEW m, Version(current, m),
         pos - 1 <= Good(current), current.damaged = 0 => Size > BufSize,
         phase' = "error"
  PROVE  Stage'
<1>1. PICK c \in Message : c = current
  BY Streams
<1>2. c.damaged \in Nat /\ pos \in Nat \ {0}
  BY TypeParts DEF Message
<1>3. c.damaged # 0 => pos <= c.damaged
  BY <1>1, <1>2 DEF Good
<1>4. current' = c /\ Size' = Size
  BY <1>1, VersionSame
<1>5. Refused'
  BY <1>1, <1>3, <1>4 DEF Refused
<1> QED BY <1>5 DEF Stage

(* What a call of a parser of lines comes to.                              *)
LineCase(k, r, m, P) ==
  \/ /\ k.rc = "DONE" /\ k.str["uri"].len <= UriMax
     /\ Arrives(k, LineEnd(m.bytes, P[0]), P[0], last', Good(current))
  \/ /\ k.rc = "AGAIN" /\ (last' = BufSize => Size > BufSize)
     /\ Waits(LineOf(r), k, m.bytes, 0, P[0], LineStart(r), last', Good(current))
  \/ k.rc = "ERROR" /\ current.damaged # 0
LEMMA LineCases ==
  ASSUME TypeInv, recv, cuts = 0 => pos <= last + 1, cuts = 0,
         NEW r, NEW m, NEW line, NEW N, NEW ns, NEW P,
         Within(r, m, line, N, ns, P), hd.handler = "line",
         "bare" \notin current.names, NEW k, k = Parse(LineOf(role), last')
  PROVE  /\ Whole(k) /\ k.str \in Strs /\ (k.rc = "AGAIN" => k.p = last' + 1)
         /\ last' \in Nat /\ LineCase(k, r, m, P)
<1>1. PICK to \in Nat : to = last'
  BY Received
<1>2. to >= last /\ to >= pos - 1
  BY <1>1, Received
<1>3. /\ LineOf(role) = Table /\ P[0] \in Nat \ {0} /\ P[0] <= Size
      /\ \/ Arrives(k, LineEnd(m.bytes, P[0]), P[0], to, Good(current))
         \/ Waits(LineOf(r), k, m.bytes, 0, P[0], LineStart(r), to, Good(current))
         \/ Refuses(k, P[0], Good(current))
  <2>1. k = Parse(LineOf(role), to)
    BY <1>1
  <2> QED BY <1>2, <2>1, LineOutcome
<1>4. Parsed(Table, to, k)
  BY <1>1, <1>2, <1>3, ParseParsed
<1>5. Whole(k) /\ k.str \in Strs /\ (k.rc = "AGAIN" => k.p = to + 1)
  BY <1>4 DEF Parsed
<1>6. /\ r = role /\ Outline(m, r, line, N, ns, P) /\ Version(current, m)
      /\ pos - 1 <= Good(current)
  BY DEF Within
<1>7. CASE Arrives(k, LineEnd(m.bytes, P[0]), P[0], to, Good(current))
  <2>1. k = LineEnd(m.bytes, P[0])
    BY <1>7 DEF Arrives
  <2>2. k.rc = "DONE" /\ k.str["uri"] = Found(m.bytes, P[0], "uri")
    <3>1. "uri" \in Field /\ "uri" # Blank
      BY Blanks DEF Field
    <3> QED BY <2>1, <3>1 DEF LineEnd, Open
  <2>3. Found(m.bytes, P[0], "uri").len <= 2
    <3>1. r \in {"request", "response"}
      BY <1>6, TypeParts
    <3>2. line \in LinesOf(r) /\ Spells(m.bytes, 0, line) /\ P[0] = Len(line)
      BY <1>6 DEF Outline
    <3> QED BY <3>1, <3>2, UriShort
  <2>4. k.str["uri"].len <= UriMax
    <3>1. k.str["uri"].len \in Nat
      BY <1>5 DEF Strs, Place, Field
    <3> QED BY <2>2, <2>3, <3>1, LimitsAssumption, Limits
  <2> QED BY <1>1, <1>5, <1>7, <2>2, <2>4 DEF LineCase
<1>8. CASE Waits(LineOf(r), k, m.bytes, 0, P[0], LineStart(r), to, Good(current))
  <2>1. k.rc = "AGAIN" /\ to < P[0]
    BY <1>8 DEF Waits
  <2>2. to = BufSize => Size > BufSize
    <3>1. Size \in Nat /\ BufSize \in Nat
      BY Streams, Limits
    <3> QED BY <1>3, <2>1, <3>1
  <2> QED BY <1>1, <1>5, <1>8, <2>1, <2>2 DEF LineCase
<1>9. CASE Refuses(k, P[0], Good(current))
  <2>1. k.rc = "ERROR" /\ Good(current) < P[0]
    BY <1>9 DEF Refuses
  <2>2. current.damaged # 0
    <3>1. Len(m.bytes) = Size
      <4>1. 0 \in Nat /\ 0 <= Len(m.bytes)
        <5>1. Size \in Nat /\ Len(m.bytes) = Size
          BY <1>6, Streams DEF Version, Size
        <5> QED BY <5>1
      <4> QED BY <1>6, <4>1, GoodSeen
    <3>2. P[0] \in Nat /\ P[0] <= Len(m.bytes)
      BY <1>3, <3>1
    <3> QED BY <1>6, <2>1, <3>2, GoodSeen
  <2> QED BY <1>1, <1>5, <2>1, <2>2 DEF LineCase
<1> QED BY <1>3, <1>7, <1>8, <1>9

LEMMA Unnumbered == Renumbered("start") = "s_start"
BY DEF Renumbered

LEMMA Parsing ==
  ASSUME TypeInv'
  PROVE  role' = "request" \/ hd'.handler = "headers" => pos' <= last' + 1
BY DEF TypeInv

LEMMA ReadRequestLine ==
  ASSUME TypeInv, TypeInv', ReadInv, http_request_head_process_request_line
  PROVE  ReadInv'
<1> PICK k : k = Parse(RequestLine, last')
  OBVIOUS
<1>1. /\ phase = "reading" /\ role = "request" /\ hd.handler = "line" /\ recv
      /\ UNCHANGED <<role, heads, cuts>>
      /\ \/ /\ k.rc = "DONE" /\ k.str["uri"].len <= UriMax
            /\ pos' = k.p
            /\ rc' = "AGAIN"
            /\ hd' = http_request_line_done(k)
            /\ UNCHANGED phase
         \/ k.rc = "DONE" /\ k.str["uri"].len > UriMax /\ Fails
         \/ k.rc = "ERROR" /\ Fails
         \/ k.rc = "AGAIN" /\ WantsMore(k, 0)
  BY DEF http_request_head_process_request_line
<1>2. cuts = 0 /\ pos <= last + 1
  BY <1>1 DEF ReadInv
<1>3. LineOf(role) = RequestLine
  BY <1>1 DEF LineOf
<1>4. ASSUME ~current.longer, "bare" \notin current.names PROVE Stage'
  <2>1. PICK r, m, line, N, ns, P : Within(r, m, line, N, ns, P)
    BY <1>1, <1>2, <1>4 DEF ReadInv, Stage, Reading
  <2>2. /\ Whole(k) /\ k.str \in Strs /\ (k.rc = "AGAIN" => k.p = last' + 1)
        /\ last' \in Nat /\ LineCase(k, r, m, P)
    BY <1>1, <1>2, <1>3, <1>4, <2>1, LineCases
  <2>3. PICK to \in Nat : to = last'
    BY <2>2
  <2>4. r = role /\ Version(current, m) /\ pos - 1 <= Good(current)
    BY <2>1 DEF Within
  <2>5. CASE k.rc = "DONE"
    <3>1. /\ k.str["uri"].len <= UriMax
          /\ Arrives(k, LineEnd(m.bytes, P[0]), P[0], to, Good(current))
      BY <2>2, <2>3, <2>5 DEF LineCase
    <3>2. k.str["uri"].len \in Nat /\ UriMax \in Nat
      BY <2>2, Limits DEF Strs, Place, Field
    <3>3. pos' = k.p /\ hd' = http_request_line_done(k) /\ phase' = "reading"
      BY <1>1, <2>5, <3>1, <3>2
    <3>4. /\ hd'.handler = "headers" /\ hd'.state = "s_start" /\ hd'.str = k.str
          /\ Carried(hd, hd')
      BY <3>3, TypeParts DEF http_request_line_done, HeadState, Carried
    <3>5. Within(r, m, line, N, ns, P)'
      BY <1>1, <1>4, <2>1, <2>2, <3>1, <3>3, <3>4, LineCompletes
    <3>6. Reading'
      BY <3>5 DEF Reading
    <3> QED BY <3>3, <3>6 DEF Stage
  <2>6. CASE k.rc = "AGAIN"
    <3>1. /\ to = BufSize => Size > BufSize
          /\ Waits(LineOf(r), k, m.bytes, 0, P[0], LineStart(r), to, Good(current))
      BY <2>2, <2>3, <2>6 DEF LineCase
    <3>2. WantsMore(k, 0)
      BY <1>1, <2>6
    <3>3. CASE Full
      <4>1. pos' = pos /\ phase' = "error" /\ Size > BufSize
        BY <2>3, <3>1, <3>2, <3>3 DEF WantsMore, Fails, Full
      <4> QED BY <1>1, <2>4, <4>1, Refusal
    <3>4. CASE ~Full
      <4>1. /\ pos' = k.p + 0 /\ phase' = "reading"
            /\ hd' = [hd EXCEPT !.state = k.state, !.str = k.str]
        BY <1>1, <3>2, <3>4 DEF WantsMore
      <4>2. k.p = to + 1 /\ pos' = k.p
        BY <2>2, <2>3, <2>6, <4>1
      <4>3. r = "request"
        BY <1>1, <2>4
      <4>4. Within(r, m, line, N, ns, P)'
        BY <1>1, <2>1, <2>2, <3>1, <4>1, <4>2, <4>3, LineResumes
      <4>5. Reading'
        BY <4>4 DEF Reading
      <4> QED BY <4>1, <4>5 DEF Stage
    <3> QED BY <3>3, <3>4
  <2>7. CASE k.rc = "ERROR"
    <3>1. current.damaged # 0
      BY <2>2, <2>7 DEF LineCase
    <3>2. pos' = pos /\ phase' = "error"
      BY <1>1, <2>7 DEF Fails
    <3> QED BY <1>1, <2>4, <3>1, <3>2, Refusal
  <2> QED BY <1>1, <2>5, <2>6, <2>7
<1>5. phase' # "garbled"
  BY <1>1 DEF WantsMore, Fails
<1>6. pos' <= last' + 1 /\ cuts' = 0
  <2>1. role' = "request"
    BY <1>1
  <2>2. pos' <= last' + 1
    BY <2>1, Parsing
  <2> QED BY <1>1, <1>2, <2>2
<1> QED BY <1>1, <1>4, <1>5, <1>6, Framed

LEMMA ReadResponseLine ==
  ASSUME TypeInv, TypeInv', ReadInv, http_response_head_process_response_line
  PROVE  ReadInv'
<1> PICK k : k = Parse(ResponseLine, last')
  OBVIOUS
<1>1. /\ phase = "reading" /\ role = "response" /\ hd.handler = "line" /\ recv
      /\ UNCHANGED <<role, heads>>
      /\ \/ /\ k.rc = "DONE"
            /\ pos' = k.p
            /\ rc' = "AGAIN"
            /\ hd' = http_response_line_done(k)
            /\ UNCHANGED phase
         \/ k.rc = "ERROR" /\ Fails
         \/ k.rc = "AGAIN" /\ WantsMore(k, 1)
      /\ cuts' = IF k.rc = "AGAIN" THEN cuts + 1 ELSE cuts
  BY DEF http_response_head_process_response_line
<1>2. cuts \in Nat
  BY TypeParts, Limits
<1>3. cuts' = 0 => cuts = 0 /\ k.rc # "AGAIN" /\ pos <= last + 1
  BY <1>1, <1>2 DEF ReadInv
<1>4. LineOf(role) = ResponseLine
  BY <1>1 DEF LineOf
<1>5. ASSUME cuts' = 0, ~current.longer, "bare" \notin current.names PROVE Stage'
  <2>1. PICK r, m, line, N, ns, P : Within(r, m, line, N, ns, P)
    BY <1>1, <1>3, <1>5 DEF ReadInv, Stage, Reading
  <2>2. /\ Whole(k) /\ k.str \in Strs /\ (k.rc = "AGAIN" => k.p = last' + 1)
        /\ last' \in Nat /\ LineCase(k, r, m, P)
    BY <1>1, <1>3, <1>4, <1>5, <2>1, LineCases
  <2>3. PICK to \in Nat : to = last'
    BY <2>2
  <2>4. r = role /\ Version(current, m) /\ pos - 1 <= Good(current)
    BY <2>1 DEF Within
  <2>5. CASE k.rc = "DONE"
    <3>1. Arrives(k, LineEnd(m.bytes, P[0]), P[0], to, Good(current))
      BY <2>2, <2>3, <2>5 DEF LineCase
    <3>2. pos' = k.p /\ hd' = http_response_line_done(k) /\ phase' = "reading"
      BY <1>1, <2>5
    <3>3. hd.state = "start"
      BY <1>1, <2>1, <2>4 DEF Within, InLine, InHeader
    <3>4. /\ hd'.handler = "headers" /\ hd'.state = "s_start" /\ hd'.str = k.str
          /\ Carried(hd, hd')
      BY <3>2, <3>3, Unnumbered, TypeParts DEF http_response_line_done, HeadState, Carried
    <3>5. Within(r, m, line, N, ns, P)'
      BY <1>1, <1>5, <2>1, <2>2, <3>1, <3>2, <3>4, LineCompletes
    <3>6. Reading'
      BY <3>5 DEF Reading
    <3> QED BY <3>2, <3>6 DEF Stage
  <2>6. CASE k.rc = "ERROR"
    <3>1. current.damaged # 0
      BY <2>2, <2>6 DEF LineCase
    <3>2. pos' = pos /\ phase' = "error"
      BY <1>1, <2>6 DEF Fails
    <3> QED BY <1>1, <2>4, <3>1, <3>2, Refusal
  <2> QED BY <1>1, <1>3, <1>5, <2>5, <2>6
<1>6. phase' # "garbled"
  BY <1>1 DEF WantsMore, Fails
<1>7. ASSUME cuts' = 0 PROVE pos' <= last' + 1
  <2>1. CASE k.rc = "DONE"
    <3>1. hd' = http_response_line_done(k)
      BY <1>1, <2>1
    <3>2. hd'.handler = "headers"
      BY <3>1, TypeParts DEF http_response_line_done, HeadState
    <3> QED BY <3>2, Parsing
  <2>2. CASE k.rc = "ERROR"
    <3>1. pos' = pos
      BY <1>1, <2>2 DEF Fails
    <3>2. last' >= last /\ last' \in Nat /\ last \in Nat /\ pos \in Nat
      BY <1>1, Received
    <3>3. PICK a \in Nat, b \in Nat, p \in Nat : a = last /\ b = last' /\ p = pos
      BY <3>2
    <3>4. p <= a + 1
      BY <1>3, <1>7, <3>3
    <3>5. a <= b
      BY <3>2, <3>3
    <3>6. p <= b + 1
      BY <3>4, <3>5
    <3> QED BY <3>1, <3>3, <3>6
  <2> QED BY <1>1, <1>3, <1>7, <2>1, <2>2
<1>8. role # "request"
  BY <1>1
<1> QED BY <1>1, <1>5, <1>6, <1>7, <1>8, Framed

LEMMA SoundLength ==
  ASSUME NEW k, NEW x, Says(k, x), Is(k, <<"Content-", "Length">>)
  PROVE  l_atoi(Contents(k.str["header_value"])) # <<"ERROR">>
<1>1. Contents(k.str["header_value"]) = <<"1", "2">>
  BY DEF Says
<1> QED BY <1>1, Numbers

LEMMA ReadHeaders ==
  ASSUME TypeInv, TypeInv', ReadInv, process_headers
  PROVE  ReadInv'
<1> PICK k : k = Parse(HeaderLine, last')
  OBVIOUS
<1> PICK length : length = l_atoi(Contents(k.str["header_value"]))
  OBVIOUS
<1> PICK done : done = [hd EXCEPT !.str = k.str, !.state = "s_start"]
  OBVIOUS
<1>1. /\ phase = "reading" /\ hd.handler = "headers" /\ recv
      /\ UNCHANGED <<role, heads, cuts>>
      /\ \/ /\ k.rc = "OK"
            /\ pos' = k.p
            /\ hd' = IF role = "request" THEN RequestHeader(k) ELSE ResponseHeader(k)
            /\ UNCHANGED phase
         \/ /\ k.rc = "OK" /\ Is(k, <<"Content-", "Length">>)
            /\ length = <<"ERROR">>
            /\ Fails
         \/ /\ k.rc = "HTTP_PARSE_HEADER_DONE"
            /\ pos' = k.p
            /\ \/ /\ role = "request"
                  /\ hd' = [done EXCEPT !.body_type = BodyType(done)]
                  /\ phase' = "done"
               \/ /\ role = "request"
                  /\ l_atoi(Contents(hd.content_length)) = <<"ERROR">>
                  /\ phase' = "error"
               \/ /\ role = "response"
                  /\ hd' = done
                  /\ phase' = "done"
         \/ k.rc = "ERROR" /\ Fails
         \/ k.rc = "AGAIN" /\ WantsMore(k, 0)
  BY DEF process_headers
<1>2. /\ hd \in HeadState /\ role \in {"request", "response"} /\ cuts \in Nat
  BY TypeParts, Limits
<1>3. ASSUME cuts = 0, ~current.longer, "bare" \notin current.names PROVE Stage'
  <2>1. PICK r, m, line, N, ns, P : Within(r, m, line, N, ns, P)
    BY <1>1, <1>3 DEF ReadInv, Stage, Reading
  <2>2. r = role /\ Version(current, m) /\ pos - 1 <= Good(current)
        /\ Outline(m, r, line, N, ns, P) /\ \E j : InHeader(r, m, N, ns, P, j)
    BY <1>1, <2>1 DEF Within, InLine
  <2>3. PICK to \in Nat : to = last' /\ to >= last /\ to >= pos - 1
    BY <1>1, Received
  <2>4. PICK j : InHeader(r, m, N, ns, P, j)
    BY <2>2
  <2>5. PICK kd, kl, vd, vl :
          InSection(HeaderLine, m.bytes, P[j], Mark(N, P, j),
                    HeadStart(P[j], Open(m.bytes, P[0], Blank), kd, kl, vd, vl))
    BY <2>4 DEF InHeader
  <2>6. j \in 0 .. N /\ Means(r, hd, Passed(ns, j)) /\ P[j] \in Nat
    BY <2>2, <2>4 DEF InHeader, Outline
  <2>7. PICK k0 : k0 = HeadStart(P[j], Open(m.bytes, P[0], Blank), kd, kl, vd, vl)
    OBVIOUS
  <2>8. InSection(HeaderLine, m.bytes, P[j], Mark(N, P, j), k0)
    BY <2>5, <2>7
  <2>9. k = Parse(HeaderLine, to)
    BY <2>3
  <2>10. /\ HeaderLine = Table /\ Mark(N, P, j) \in Nat /\ Mark(N, P, j) <= Size
         /\ \/ Arrives(k, Reached(m, N, ns, P, j, kd, kl, vd, vl), Mark(N, P, j), to,
                     Good(current))
            \/ Waits(HeaderLine, k, m.bytes, P[j], Mark(N, P, j), k0, to, Good(current))
            \/ Refuses(k, Mark(N, P, j), Good(current))
    BY <1>1, <1>3, <2>1, <2>3, <2>6, <2>7, <2>8, <2>9, HeaderOutcome
  <2>11. Parsed(Table, to, k)
    BY <2>3, <2>9, <2>10, ParseParsed
  <2>12. Whole(k) /\ k.str \in Strs /\ (k.rc = "AGAIN" => k.p = to + 1)
    BY <2>11 DEF Parsed
  <2>13. CASE j # N /\ Arrives(k, Reached(m, N, ns, P, j, kd, kl, vd, vl),
                             Mark(N, P, j), to, Good(current))
    <3>1. /\ k.rc = "OK" /\ \E x : Says(k, x)
          /\ (/\ pos' = k.p
              /\ hd' = IF role = "request" THEN RequestHeader(k) ELSE ResponseHeader(k))
             => Within(r, m, line, N, ns, P)'
      BY <1>1, <1>3, <2>1, <2>6, <2>12, <2>13, HeaderCompletes
    <3>2. ~(Is(k, <<"Content-", "Length">>) /\ length = <<"ERROR">>)
      BY <3>1, SoundLength
    <3>3. /\ pos' = k.p /\ phase' = "reading"
          /\ hd' = IF role = "request" THEN RequestHeader(k) ELSE ResponseHeader(k)
      BY <1>1, <3>1, <3>2
    <3>4. Reading'
      BY <3>1, <3>3 DEF Reading
    <3> QED BY <3>3, <3>4 DEF Stage
  <2>14. CASE j = N /\ Arrives(k, Reached(m, N, ns, P, j, kd, kl, vd, vl),
                             Mark(N, P, j), to, Good(current))
    <3>1. /\ Means(r, hd, Passed(ns, N))
          /\ Arrives(k, Reached(m, N, ns, P, N, kd, kl, vd, vl), Mark(N, P, N), to,
                   Good(current))
      BY <2>6, <2>14
    <3>2. /\ k.rc = "HTTP_PARSE_HEADER_DONE" /\ current.damaged = 0
          /\ k.p = Size + 1 /\ current.bytes = m.bytes /\ Passed(ns, N) = current.names
          /\ k.str = Fixed(Open(m.bytes, P[0], Blank), kd, kl, vd, vl)
          /\ l_atoi(Contents(hd.content_length)) # <<"ERROR">>
      BY <1>3, <2>1, <3>1, HeadSound
    <3>3. /\ pos' = k.p /\ phase' = "done"
          /\ \/ role = "request" /\ hd' = [done EXCEPT !.body_type = BodyType(done)]
             \/ role = "response" /\ hd' = done
      BY <1>1, <3>2
    <3>4. /\ done.keepalive = hd.keepalive /\ done.content_length = hd.content_length
          /\ done.body_type = hd.body_type /\ done.str = k.str
          /\ done.transfer_encoding = hd.transfer_encoding
          /\ [done EXCEPT !.body_type = BodyType(done)].keepalive = hd.keepalive
          /\ [done EXCEPT !.body_type = BodyType(done)].content_length = hd.content_length
          /\ [done EXCEPT !.body_type = BodyType(done)].str = k.str
          /\ [done EXCEPT !.body_type = BodyType(done)].body_type = BodyType(done)
      BY <1>2 DEF HeadState
    <3>5. BodyType(done) = BodyType(hd)
      BY <3>4 DEF BodyType
    <3>6. /\ hd'.str = Fixed(Open(m.bytes, P[0], Blank), kd, kl, vd, vl)
          /\ pos' = Size + 1 /\ hd'.keepalive = hd.keepalive
          /\ hd'.content_length = hd.content_length
          /\ hd'.body_type = IF role = "request" THEN BodyType(hd) ELSE hd.body_type
      BY <3>2, <3>3, <3>4, <3>5
    <3>7. Means(r, hd, current.names)
      BY <3>1, <3>2
    <3>8. AsWritten'
      BY <1>1, <1>3, <2>1, <3>2, <3>6, <3>7, HeadWritten
    <3>9. (current.damaged = 0)'
      BY <1>1, <3>2, VersionSame
    <3> QED BY <3>3, <3>8, <3>9 DEF Stage
  <2>15. CASE Waits(HeaderLine, k, m.bytes, P[j], Mark(N, P, j), k0, to, Good(current))
    <3>1. k.rc = "AGAIN" /\ to < Mark(N, P, j)
      BY <2>15 DEF Waits
    <3>2. WantsMore(k, 0)
      BY <1>1, <3>1
    <3>3. CASE Full
      <4>1. pos' = pos /\ phase' = "error" /\ to = BufSize
        BY <2>3, <3>2, <3>3 DEF WantsMore, Fails, Full
      <4>2. Size > BufSize
        <5>1. Size \in Nat /\ BufSize \in Nat
          BY Streams, Limits
        <5> QED BY <2>10, <3>1, <4>1, <5>1
      <4> QED BY <1>1, <2>2, <4>1, <4>2, Refusal
    <3>4. CASE ~Full
      <4>1. /\ pos' = k.p + 0 /\ phase' = "reading"
            /\ hd' = [hd EXCEPT !.state = k.state, !.str = k.str]
        BY <1>1, <3>2, <3>4 DEF WantsMore
      <4>2. k.p = to + 1 /\ pos' = k.p
        BY <2>12, <3>1, <4>1
      <4>3. Within(r, m, line, N, ns, P)'
        BY <1>1, <2>1, <2>3, <2>6, <2>7, <2>8, <2>12, <2>15, <4>1, <4>2, HeaderResumes
      <4>4. Reading'
        BY <4>3 DEF Reading
      <4> QED BY <4>1, <4>4 DEF Stage
    <3> QED BY <3>3, <3>4
  <2>16. CASE Refuses(k, Mark(N, P, j), Good(current))
    <3>1. k.rc = "ERROR" /\ Good(current) < Mark(N, P, j)
      BY <2>16 DEF Refuses
    <3>2. current.damaged # 0
      <4>1. Len(m.bytes) = Size
        BY <2>2 DEF Version, Size
      <4>2. Mark(N, P, j) <= Len(m.bytes)
        BY <2>10, <4>1
      <4> QED BY <2>2, <2>10, <3>1, <4>2, GoodSeen
    <3>3. pos' = pos /\ phase' = "error"
      BY <1>1, <3>1 DEF Fails
    <3> QED BY <1>1, <2>2, <3>2, <3>3, Refusal
  <2> QED BY <2>10, <2>13, <2>14, <2>15, <2>16
<1>4. phase' # "garbled"
  BY <1>1 DEF WantsMore, Fails
<1>5. hd'.handler = "headers"
  <2>1. CASE UNCHANGED hd
    BY <1>1, <2>1
  <2>2. CASE hd' \in {RequestHeader(k), ResponseHeader(k)}
    BY <1>1, <1>2, <2>2 DEF RequestHeader, ResponseHeader, HeadState
  <2>3. CASE hd' = [hd EXCEPT !.state = k.state, !.str = k.str]
    BY <1>1, <1>2, <2>3 DEF HeadState
  <2>4. CASE hd' \in {done, [done EXCEPT !.body_type = BodyType(done)]}
    <3>1. ASSUME NEW d, d = [hd EXCEPT !.str = k.str, !.state = "s_start"]
          PROVE  d.handler = hd.handler
                 /\ [d EXCEPT !.body_type = BodyType(d)].handler = hd.handler
      BY <1>2, <3>1 DEF HeadState
    <3>2. done.handler = "headers"
          /\ [done EXCEPT !.body_type = BodyType(done)].handler = "headers"
      BY <1>1, <3>1
    <3> QED BY <2>4, <3>2, Zenon
  <2>5. k.rc = "HTTP_PARSE_HEADER_DONE" =>
          hd' \in {done, [done EXCEPT !.body_type = BodyType(done)]}
    BY DEF process_headers
  <2>6. Fails => UNCHANGED hd
    BY DEF Fails
  <2>7. WantsMore(k, 0) =>
          UNCHANGED hd \/ hd' = [hd EXCEPT !.state = k.state, !.str = k.str]
    BY <2>6 DEF WantsMore
  <2>8. \/ UNCHANGED hd
        \/ hd' \in {RequestHeader(k), ResponseHeader(k)}
        \/ hd' = [hd EXCEPT !.state = k.state, !.str = k.str]
        \/ hd' \in {done, [done EXCEPT !.body_type = BodyType(done)]}
    <3>1. CASE k.rc = "HTTP_PARSE_HEADER_DONE"
      BY <2>5, <3>1
    <3>2. CASE k.rc # "HTTP_PARSE_HEADER_DONE"
      BY <1>1, <2>6, <2>7, <3>2, Zenon
    <3> QED BY <3>1, <3>2
  <2> QED BY <2>1, <2>2, <2>3, <2>4, <2>8, Zenon
<1>6. pos' <= last' + 1
  BY <1>5, Parsing
<1>7. (role = "request" => cuts' = 0) /\ (cuts' = 0 => cuts = 0)
  BY <1>1 DEF ReadInv
<1> QED BY <1>1, <1>3, <1>4, <1>6, <1>7, Framed

(* A head begins.                                                          *)
FreshHead ==
  /\ pos = 1 /\ hd = create(Zeroed) /\ role \in {"request", "response"}
  /\ AllKept(heads, role) /\ heads \in Seq(Message) /\ Len(heads) \in 1 .. 2
  /\ cuts = 0 /\ last \in Nat /\ phase \in {"reading", "garbled"}
  /\ phase = "garbled" => current.damaged = 0

LEMMA FreshStage ==
  ASSUME FreshHead, ~current.longer
  PROVE  Stage
<1>1. /\ pos = 1 /\ hd = create(Zeroed) /\ role \in {"request", "response"}
      /\ AllKept(heads, role) /\ cuts = 0 /\ last \in Nat
      /\ phase \in {"reading", "garbled"}
      /\ phase = "garbled" => current.damaged = 0
  BY DEF FreshHead
<1>2. current \in Message /\ current = heads[1] /\ 1 \in 1 .. Len(heads)
  <2>1. PICK S : S = Message
    OBVIOUS
  <2>2. heads \in Seq(S) /\ Len(heads) \in 1 .. 2
    BY <2>1 DEF FreshHead
  <2>3. Head(heads) = heads[1] /\ heads[1] \in S /\ 1 \in 1 .. Len(heads)
    BY <2>2
  <2> QED BY <2>1, <2>3 DEF current
<1>3. Kept(current, role)
  BY <1>1, <1>2 DEF AllKept, Known
<1>4. PICK m, line, N, ns, P : Outline(m, role, line, N, ns, P) /\ Version(current, m)
  BY <1>3 DEF Kept
<1>5. PICK r \in {"request", "response"} : r = role
  BY <1>1
<1>6. PICK h : h = hd
  OBVIOUS
<1>7. /\ h.handler = "line" /\ h.str = [f \in Field |-> NoString]
      /\ h.state = First(r) /\ Means(r, h, {})
  <2>1. h = create(Zeroed)
    BY <1>1, <1>6
  <2>2. /\ h.handler = "line" /\ \A f \in Field : h.str[f] = NoString
        /\ h.content_length = NoString /\ h.body_type = "NULL"
        /\ h.transfer_encoding = FALSE /\ h.keepalive = FALSE /\ h.str \in Strs
        /\ h.state = IF r = "request" THEN "s_start" ELSE "start"
    BY <1>5, <2>1, Anew DEF HeadState
  <2>3. h.str = [f \in Field |-> NoString]
    BY <2>2 DEF Strs
  <2> QED BY <2>2, <2>3 DEF First, Means
<1>8. P[0] \in Nat \ {0}
  <2>1. line \in LinesOf(r) /\ P[0] = Len(line)
    BY <1>4, <1>5 DEF Outline
  <2> QED BY <2>1, LineLong
<1>9. InSection(LineOf(r), m.bytes, 0, P[0], LineStart(r))
  <2>1. PICK E, k0, table : /\ k0 = LineStart(r) /\ table = LineOf(r)
                            /\ E = [j \in Nat |-> k0]
    OBVIOUS
  <2>2. Begun = k0
    BY <1>1, <1>6, <1>7, <2>1 DEF Begun, LineStart
  <2>3. pos - 1 = 0 /\ 0 < P[0] /\ 0 <= 0
    BY <1>1, <1>8
  <2>4. E[0] = k0
    BY <2>1
  <2>5. Runs(table, E, 0, 0, m.bytes, k0)
    BY <2>4 DEF Runs
  <2>6. InSection(table, m.bytes, 0, P[0], k0)
    BY <2>2, <2>3, <2>4, <2>5 DEF InSection
  <2> QED BY <2>1, <2>6
<1>10. InLine(r, m, P)
  BY <1>6, <1>7, <1>9 DEF InLine, First
<1>11. pos - 1 <= Good(current)
  <2>1. Good(current) \in Nat
    <3>1. current.damaged \in Nat /\ Len(current.bytes) \in Nat
      <4>1. PICK S : S = Tag \X Token
        OBVIOUS
      <4>2. current.bytes \in Seq(S) /\ current.damaged \in Nat
        BY <1>2, <4>1 DEF Message
      <4> QED BY <4>2
    <3> QED BY <3>1 DEF Good
  <2>2. pos - 1 = 0
    BY <1>1
  <2> QED BY <2>1, <2>2
<1>12. Within(r, m, line, N, ns, P)
  BY <1>4, <1>5, <1>10, <1>11 DEF Within
<1>13. Reading
  BY <1>12 DEF Reading
<1> QED BY <1>1, <1>13 DEF Stage

LEMMA FreshRead == FreshHead => ReadInv
BY FreshStage DEF FreshHead, ReadInv

LEMMA ReadInit == Init => ReadInv
<1> SUFFICES ASSUME Init PROVE ReadInv
  OBVIOUS
<1>1. TypeInv
  BY TypeInit
<1>2. /\ role \in {"request", "response"} /\ last = 0 /\ pos = 1
      /\ hd = create(Zeroed) /\ phase = "reading" /\ cuts = 0
      /\ heads \in Talks(LinesOf(role))
  BY DEF Init, LinesOf
<1>3. LinesOf(role) \subseteq Bytes /\ LinesOf(role) # {}
  <2>1. RequestLines \subseteq Bytes /\ RequestLines # {} /\ StatusLines \subseteq Bytes
    BY RequestBytes, StatusBytes
  <2>2. StatusLines # {}
    <3>1. <<"GE">> \in {<<"GE">>, <<"GE", "sp">>}
      OBVIOUS
    <3> QED BY <3>1, Zenon DEF StatusLines
  <2> QED BY <2>1, <2>2 DEF LinesOf
<1>4. AllKept(heads, role)
  <2>1. PICK r, lines : r = role /\ lines = LinesOf(r)
    OBVIOUS
  <2>2. lines \subseteq Bytes /\ lines # {} /\ heads \in Talks(lines)
    BY <1>2, <1>3, <2>1
  <2>3. AllKept(heads, r)
    BY <2>1, <2>2, TalksKept
  <2> QED BY <2>1, <2>3
<1>5. FreshHead
  BY <1>1, <1>2, <1>4 DEF FreshHead, TypeInv
<1> QED BY <1>5, FreshRead

LEMMA TailOfTwo ==
  ASSUME NEW S, NEW s \in Seq(S), Len(s) = 2
  PROVE  /\ Tail(s) \in Seq(S) /\ Len(Tail(s)) = 1 /\ Tail(s)[1] = s[2]
         /\ Head(Tail(s)) = s[2]
<1>1. s # << >>
  OBVIOUS
<1>2. Len(Tail(s)) = 1 /\ Tail(s) \in Seq(S) /\ Tail(s)[1] = s[2]
  BY <1>1, HeadTailProperties
<1>3. \A t : t \in Seq(S) /\ Len(t) = 1 => Head(t) = t[1]
  OBVIOUS
<1> QED BY <1>2, <1>3

LEMMA AnotherHead ==
  ASSUME TypeInv, ReadInv, Len(heads) > 1, heads' = Tail(heads), role' = role,
         pos' = 1, hd' = create(Zeroed), cuts' = 0, last' \in Nat,
         phase' \in {"reading", "garbled"}
  PROVE  ReadInv'
<1>1. PICK S : S = Message
  OBVIOUS
<1>2. heads \in Seq(S) /\ Len(heads) = 2
  BY <1>1 DEF TypeInv
<1>3. heads' \in Seq(S) /\ Len(heads') = 1 /\ heads'[1] = heads[2] /\ Head(heads') = heads[2]
  BY <1>2, TailOfTwo
<1>4. Known(heads[2], role) /\ heads[2].damaged = 0
  <2>1. 2 \in 1 .. Len(heads) /\ 2 \in 2 .. Len(heads)
    BY <1>2
  <2> QED BY <2>1 DEF ReadInv, AllKept
<1>5. PICK hs, r : hs = heads' /\ r = role
  OBVIOUS
<1>6. AllKept(hs, r)
  <2>1. (\A i \in 1 .. 1 : i = 1) /\ 2 .. 1 = {}
    OBVIOUS
  <2> QED BY <1>3, <1>4, <1>5, <2>1 DEF AllKept
<1>7. AllKept(heads, role)'
  BY <1>5, <1>6
<1>8. current'.damaged = 0
  BY <1>3, <1>4 DEF current
<1>9. (hd = create(Zeroed))'
  BY DEF create
<1>10. role' \in {"request", "response"}
  BY TypeParts
<1>11. FreshHead'
  BY <1>1, <1>3, <1>7, <1>8, <1>9, <1>10 DEF FreshHead
<1>12. FreshHead' => ReadInv'
  BY FreshRead, PTL
<1> QED BY <1>11, <1>12

(* A parser that wants more lacks some of its head.                        *)
LEMMA WithinShort ==
  ASSUME TypeInv, cuts = 0, pos <= last + 1, "bare" \notin current.names,
         NEW r, NEW m, NEW line, NEW N, NEW ns, NEW P, Within(r, m, line, N, ns, P)
  PROVE  /\ pos <= Size
         /\ current.damaged # 0 => pos <= current.damaged
<1>1. PICK to \in Nat : to = last /\ to >= last
  <2>1. last \in Nat
    BY TypeParts
  <2> QED BY <2>1
<1>2. PICK z \in Nat : pos - 1 < z /\ z <= Size
  <2>1. CASE InLine(r, m, P)
    <3>1. hd.handler = "line" /\ InSection(LineOf(r), m.bytes, 0, P[0], LineStart(r))
      BY <2>1 DEF InLine
    <3>2. P[0] \in Nat /\ P[0] <= Size
      BY <1>1, <3>1, LineOutcome
    <3> QED BY <3>1, <3>2 DEF InSection
  <2>2. CASE \E j : InHeader(r, m, N, ns, P, j)
    <3>1. PICK j : InHeader(r, m, N, ns, P, j)
      BY <2>2
    <3>2. PICK kd, kl, vd, vl :
            InSection(HeaderLine, m.bytes, P[j], Mark(N, P, j),
                      HeadStart(P[j], Open(m.bytes, P[0], Blank), kd, kl, vd, vl))
      BY <3>1 DEF InHeader
    <3>3. j \in 0 .. N /\ hd.handler = "headers"
      BY <3>1 DEF InHeader
    <3>4. Mark(N, P, j) \in Nat /\ Mark(N, P, j) <= Size
      BY <1>1, <3>2, <3>3, HeaderOutcome
    <3> QED BY <3>2, <3>4 DEF InSection
  <2> QED BY <2>1, <2>2 DEF Within
<1>3. pos \in Nat \ {0} /\ Size \in Nat
  BY TypeParts, Streams
<1>4. PICK c \in Message : c = current
  BY Streams
<1>5. c.damaged \in Nat
  BY DEF Message
<1>6. c.damaged # 0 => pos - 1 <= c.damaged - 1
  BY <1>4 DEF Within, Good
<1>7. c.damaged # 0 => pos <= c.damaged
  BY <1>3, <1>5, <1>6
<1> QED BY <1>2, <1>3, <1>4, <1>7

(* A step that leaves the parser alone.                                    *)
LEMMA AsWrittenSame == ASSUME UNCHANGED <<heads, hd, pos>>, AsWritten PROVE AsWritten'
<1>1. PICK c, h, s : c = current /\ h = hd /\ s = hd.content_length
  OBVIOUS
<1>2. current' = c /\ Size' = Size /\ hd' = h /\ pos' = pos
  BY <1>1, VersionSame
<1>3. Contents(s)' = Contents(s)
  BY SameContents
<1>4. /\ pos = Size + 1
      /\ \A f \in Field \ {"header_key", "header_value"} : h.str[f] = Written(c, f)
      /\ h.body_type = CASE "length" \in c.names -> "CONTENT"
                         [] "chunked" \in c.names -> "CHUNK"
                         [] OTHER -> "NULL"
      /\ h.body_type = "CONTENT" => Contents(s) = <<"1", "2">>
      /\ h.keepalive = ("keep" \in c.names)
  BY <1>1 DEF AsWritten
<1>5. (hd.body_type = "CONTENT" => Contents(hd.content_length) = <<"1", "2">>)'
  <2>1. hd.content_length' = s
    BY <1>1, <1>2
  <2>2. h.body_type = "CONTENT" => Contents(s)' = <<"1", "2">>
    BY <1>3, <1>4
  <2> QED BY <1>2, <2>1, <2>2
<1>6. (\A f \in Field \ {"header_key", "header_value"} : hd.str[f] = Written(current, f))'
  BY <1>2, <1>4
<1>7. (hd.body_type = CASE "length" \in current.names -> "CONTENT"
                         [] "chunked" \in current.names -> "CHUNK"
                         [] OTHER -> "NULL")'
  BY <1>2, <1>4
<1> QED BY <1>2, <1>4, <1>5, <1>6, <1>7 DEF AsWritten

LEMMA WithinSame ==
  ASSUME TypeInv, UNCHANGED <<role, heads, pos, hd>>,
         NEW r, NEW m, NEW line, NEW N, NEW ns, NEW P, Within(r, m, line, N, ns, P)
  PROVE  Within(r, m, line, N, ns, P)'
<1>1. /\ r = role /\ Outline(m, r, line, N, ns, P) /\ Version(current, m)
      /\ pos - 1 <= Good(current)
  BY DEF Within
<1>2. PICK h : h = hd /\ hd' = h
  OBVIOUS
<1>3. ASSUME NEW table, NEW a \in Nat, NEW z, NEW k0,
             InSection(table, m.bytes, a, z, k0)
      PROVE  InSection(table, m.bytes, a, z, k0)'
  <2>1. PICK n : n = pos - 1
    OBVIOUS
  <2>2. PICK E : Runs(table, E, a, n, m.bytes, k0) /\ E[n] = Begun /\ a <= n /\ n < z
    BY <1>3, <2>1 DEF InSection
  <2>3. n = pos' - 1
    BY <2>1
  <2>4. E[n] = [state |-> hd'.state, str |-> hd'.str, p |-> pos', rc |-> "AGAIN"]
    BY <2>2 DEF Begun
  <2> QED BY <2>2, <2>3, <2>4, InSectionNext
<1>4. CASE InLine(r, m, P)
  <2>1. /\ h.handler = "line" /\ Means(r, h, {})
        /\ r = "response" => h.state = "start"
        /\ InSection(LineOf(r), m.bytes, 0, P[0], LineStart(r))
    BY <1>2, <1>4 DEF InLine
  <2>2. Means(r, hd, {})'
    BY <1>2, <2>1, SameMeans
  <2>3. InSection(LineOf(r), m.bytes, 0, P[0], LineStart(r))'
    BY <1>3, <2>1
  <2>4. InLine(r, m, P)'
    BY <1>2, <2>1, <2>2, <2>3 DEF InLine
  <2> QED BY <1>1, <2>4, VersionSame DEF Within
<1>5. CASE \E j : InHeader(r, m, N, ns, P, j)
  <2>1. PICK j : InHeader(r, m, N, ns, P, j)
    BY <1>5
  <2>2. j \in 0 .. N /\ h.handler = "headers" /\ Means(r, h, Passed(ns, j))
    BY <1>2, <2>1 DEF InHeader
  <2>3. PICK kd, kl, vd, vl, k0 :
          /\ k0 = HeadStart(P[j], Open(m.bytes, P[0], Blank), kd, kl, vd, vl)
          /\ InSection(HeaderLine, m.bytes, P[j], Mark(N, P, j), k0)
    BY <2>1 DEF InHeader
  <2>4. P[j] \in Nat
    BY <1>1, <2>2 DEF Outline
  <2>5. InSection(HeaderLine, m.bytes, P[j], Mark(N, P, j), k0)'
    BY <1>3, <2>3, <2>4
  <2>6. Means(r, hd, Passed(ns, j))'
    BY <1>2, <2>2, SameMeans
  <2>7. InHeader(r, m, N, ns, P, j)'
    BY <1>2, <2>2, <2>3, <2>5, <2>6 DEF InHeader
  <2> QED BY <1>1, <2>7, VersionSame DEF Within
<1> QED BY <1>4, <1>5 DEF Within

(* What reading on another connection, or answering, leaves of it.         *)
LEMMA Held ==
  ASSUME TypeInv, ReadInv, UNCHANGED <<role, heads, pos, hd, last, cuts>>,
         phase' # "garbled",
         cuts = 0 /\ ~current.longer /\ "bare" \notin current.names => Stage'
  PROVE  ReadInv'
<1>1. (role = "request" => cuts' = 0) /\ (cuts' = 0 => pos' <= last' + 1)
  BY DEF ReadInv
<1> QED BY <1>1, Framed

LEMMA ReadRequest ==
  ASSUME TypeInv, ReadInv, tunnel_local_process_request
  PROVE  ReadInv'
<1>1. /\ phase = "done" /\ UNCHANGED <<role, heads, pos, hd, last, cuts>>
      /\ phase' \in {"over", "https", "answer"}
  BY DEF tunnel_local_process_request
<1>2. ASSUME cuts = 0, ~current.longer, "bare" \notin current.names PROVE Stage'
  <2>1. AsWritten /\ current.damaged = 0
    BY <1>1, <1>2 DEF ReadInv, Stage
  <2>2. AsWritten'
    BY <1>1, <2>1, AsWrittenSame
  <2>3. (current.damaged = 0)'
    BY <1>1, <2>1, VersionSame
  <2> QED BY <1>1, <2>2, <2>3 DEF Stage
<1> QED BY <1>1, <1>2, Held

LEMMA ReadGone ==
  ASSUME TypeInv, ReadInv, Gone
  PROVE  ReadInv'
<1>1. /\ phase = "reading" /\ UNCHANGED <<role, heads, pos, hd, last, cuts>>
      /\ phase' = "over"
  BY DEF Gone
<1>2. ASSUME cuts = 0, ~current.longer, "bare" \notin current.names PROVE Stage'
  <2>1. PICK r, m, line, N, ns, P : Within(r, m, line, N, ns, P)
    BY <1>1, <1>2 DEF ReadInv, Stage, Reading
  <2>2. current.damaged # 0 => pos <= current.damaged
    BY <1>2, <2>1, WithinShort DEF ReadInv
  <2>3. (current.damaged # 0 => pos <= current.damaged)'
    BY <1>1, <2>2, VersionSame
  <2> QED BY <1>1, <2>3 DEF Stage
<1> QED BY <1>1, <1>2, Held

LEMMA ReadStutter ==
  ASSUME TypeInv, ReadInv, UNCHANGED vars
  PROVE  ReadInv'
<1>1. UNCHANGED <<role, heads, pos, hd, last, cuts, phase>>
  BY DEF vars
<1>2. ASSUME cuts = 0, ~current.longer, "bare" \notin current.names PROVE Stage'
  <2>1. Stage
    BY <1>2 DEF ReadInv
  <2>2. current' = current /\ Size' = Size
    BY <1>1, VersionSame
  <2>3. Reading => Reading'
    <3> SUFFICES ASSUME Reading PROVE Reading'
      OBVIOUS
    <3>1. PICK r, m, line, N, ns, P : Within(r, m, line, N, ns, P)
      BY DEF Reading
    <3>2. Within(r, m, line, N, ns, P)'
      BY <1>1, <3>1, WithinSame
    <3> QED BY <3>2 DEF Reading
  <2>4. AsWritten => AsWritten'
    BY <1>1, AsWrittenSame
  <2>5. Refused => Refused'
    BY <1>1, <2>2 DEF Refused
  <2> QED BY <1>1, <2>1, <2>2, <2>3, <2>4, <2>5 DEF Stage
<1>3. (phase = "garbled" => current.damaged = 0)'
  BY <1>1, VersionSame DEF ReadInv
<1>4. AllKept(heads, role)'
  BY <1>1 DEF ReadInv, AllKept, Known, Kept
<1>5. (cuts = 0 /\ ~current.longer /\ "bare" \notin current.names => Stage)'
  BY <1>1, <1>2, VersionSame
<1>6. /\ (role = "request" => cuts = 0)' /\ (cuts = 0 => pos <= last + 1)'
  BY <1>1 DEF ReadInv
<1> QED BY <1>3, <1>4, <1>5, <1>6 DEF ReadInv

LEMMA ReadFinish ==
  ASSUME TypeInv, TypeInv', ReadInv, tunnel_process_finish
  PROVE  ReadInv'
<1>1. /\ phase = "answer" /\ Len(heads) > 1 /\ heads' = Tail(heads)
      /\ role' = role /\ cuts' = cuts /\ pos' = 1 /\ hd' = create(Zeroed)
      /\ phase' \in {"reading", "garbled"}
  BY DEF tunnel_process_finish, free
<1>2. role = "request"
  BY <1>1, TypeParts
<1>3. cuts' = 0
  BY <1>1, <1>2 DEF ReadInv
<1>4. last' \in Nat
  BY DEF TypeInv, TypeOK
<1> QED BY <1>1, <1>3, <1>4, AnotherHead

LEMMA ReadNextResponse ==
  ASSUME TypeInv, ReadInv, NextResponse
  PROVE  ReadInv'
<1>1. /\ Len(heads) > 1 /\ heads' = Tail(heads) /\ role' = role
      /\ cuts' = 0 /\ pos' = 1 /\ hd' = create(Zeroed)
      /\ last' = 0 /\ phase' \in {"reading", "garbled"}
  BY DEF NextResponse, free
<1>2. last' \in Nat
  BY <1>1
<1> QED BY <1>1, <1>2, AnotherHead

LEMMA ReadNext ==
  ASSUME TypeInv, TypeInv', ReadInv, [Next]_vars
  PROVE  ReadInv'
BY ReadRequestLine, ReadResponseLine, ReadHeaders, ReadRequest, ReadFinish,
   ReadNextResponse, ReadGone, ReadStutter DEF Next

LEMMA ReadAlways == Spec => [](TypeInv /\ ReadInv)
<1>1. TypeInv /\ TypeInv' /\ ReadInv /\ [Next]_vars => ReadInv'
  BY ReadNext
<1> QED BY <1>1, ReadInit, TypedInv, PTL DEF Spec

(* However its bytes arrive, a head that is read is the one that was       *)
(* written, to its last byte: every field is where it was written, and so  *)
(* are the length of the body and whether the connection is kept.          *)
THEOREM AllReadAsWritten == Spec => []ReadsAsWritten
<1>1. TypeInv /\ ReadInv => ReadsAsWritten
  <2> SUFFICES ASSUME ReadInv, phase \in {"done", "answer", "https"}, Regular
               PROVE  ReadsAsWritten
    BY DEF ReadsAsWritten
  <2>1. AsWritten
    BY DEF ReadInv, Stage, Regular
  <2> QED BY <2>1 DEF AsWritten, ReadsAsWritten
<1> QED BY <1>1, ReadAlways, PTL

(* A parser refuses no head that fits in the buffer, and does not wait for *)
(* more of one that has arrived in full.                                   *)
THEOREM WhatFitsIsTaken == Spec => []TakesWhatFits
<1>1. TypeInv /\ ReadInv => TakesWhatFits
  <2> SUFFICES ASSUME TypeInv, ReadInv, Regular
               PROVE  /\ phase = "error" => Size > BufSize
                      /\ phase = "reading" /\ rc = "AGAIN" /\ pos > last => last < Size
    BY DEF TakesWhatFits
  <2>1. cuts = 0 /\ current.damaged = 0 /\ ~current.longer
        /\ "bare" \notin current.names /\ Stage
        /\ pos <= last + 1
    BY DEF ReadInv, Regular
  <2>2. phase = "error" => Size > BufSize
    BY <2>1 DEF Stage, Refused
  <2>3. ASSUME phase = "reading", pos > last PROVE last < Size
    <3>1. PICK r, m, line, N, ns, P : Within(r, m, line, N, ns, P)
      BY <2>1, <2>3 DEF Stage, Reading
    <3>2. pos <= Size
      BY <2>1, <3>1, WithinShort
    <3>3. pos \in Nat /\ last \in Nat /\ Size \in Nat
      BY TypeParts, Streams
    <3> QED BY <2>3, <3>2, <3>3
  <2> QED BY <2>2, <2>3
<1> QED BY <1>1, ReadAlways, PTL

(* No head with a byte that does not belong is read beyond it.             *)
THEOREM DamageIsRejected == Spec => []RejectsDamage
<1>1. TypeInv /\ ReadInv => RejectsDamage
  <2> SUFFICES ASSUME TypeInv, ReadInv, current.damaged # 0, cuts = 0
               PROVE  phase \in {"reading", "error", "over"} /\ pos <= current.damaged
    BY DEF RejectsDamage
  <2>1. ~current.longer /\ "bare" \notin current.names
    <3>1. PICK S : S = Message
      OBVIOUS
    <3>2. heads \in Seq(S) /\ Len(heads) \in 1 .. 2
      BY <3>1 DEF TypeInv
    <3>3. 1 \in 1 .. Len(heads)
      BY <3>2
    <3>4. Known(heads[1], role)
      BY <3>3 DEF ReadInv, AllKept
    <3>5. current = heads[1]
      BY Streams DEF current
    <3>6. Known(current, role)
      BY <3>4, <3>5
    <3> QED BY <3>6 DEF Known, Kept, Version
  <2>2. Stage /\ phase # "garbled" /\ phase \in Phases /\ pos <= last + 1
    BY <2>1, TypeParts DEF ReadInv
  <2>3. phase \in {"reading", "error", "over"}
    BY <2>2 DEF Stage, Phases
  <2>4. CASE phase = "reading"
    <3>1. PICK r, m, line, N, ns, P : Within(r, m, line, N, ns, P)
      BY <2>2, <2>4 DEF Stage, Reading
    <3> QED BY <2>1, <2>2, <2>3, <3>1, WithinShort
  <2>5. CASE phase = "error"
    BY <2>2, <2>3, <2>5 DEF Stage, Refused
  <2>6. CASE phase = "over"
    BY <2>2, <2>3, <2>6 DEF Stage
  <2> QED BY <2>3, <2>4, <2>5, <2>6
<1> QED BY <1>1, ReadAlways, PTL
=============================================================================

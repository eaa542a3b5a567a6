------------------------------- MODULE Heads -------------------------------
(***************************************************************************)
(* The incremental parsers of request and response heads                   *)
(* (l_http_request_head.c, l_http_response_head.c) with what l_tunnel.c    *)
(* does when a head is read: a CONNECT must end there, a request without a *)
(* body leaves the bytes behind it to the next one on the connection.      *)
(*                                                                         *)
(* A token is a byte, or a run of bytes that every state treats alike.     *)
(***************************************************************************)
EXTENDS Naturals, Sequences, FiniteSets, SequencesExt

CONSTANTS
  BufSize,     \* room in connection->meta (8192)
  MethodMax,   \* longest method (8)
  VersionMax,  \* longest version of a request (8)
  UriMax,      \* REQ_LENGTH_URI_STR (2048)
  CodeLen,     \* length of a status code (3)
  CloseLen,    \* length of "close"
  MaxHeaders,  \* bound: headers of a head
  MaxCuts      \* bound: how often a status line is left to be continued

ASSUME HeadsAssumption ==
  {BufSize, MethodMax, VersionMax, UriMax, CodeLen, CloseLen,
   MaxHeaders, MaxCuts} \subseteq Nat \ {0}

(* The words that are written below are not longer than they may be (those *)
(* of Longer are); a code has two tokens, "close" is one.                  *)
ASSUME LimitsAssumption ==
  /\ MethodMax >= 2 /\ VersionMax >= 3 /\ UriMax >= 2
  /\ CodeLen = 2 /\ CloseLen = 1

VARIABLES
  role,        \* which of the two parsers
  heads,       \* what the peer sends, from the head that is being read on
  last,        \* bytes received, of those of heads (meta->last)
  pos,         \* next of them to parse (meta->pos)
  rc,          \* of the loop in process_request_line, process_headers, ...
  hd,          \* the http_request_head_t or http_response_head_t
  phase,       \* how far the connection is
  cuts         \* history: how often the status line was

vars == <<role, heads, last, pos, rc, hd, phase, cuts>>

-----------------------------------------------------------------------------
(* Tokens.  Names and values of headers only occur where everything that   *)
(* can be printed is taken.                                                *)
Upper == {"GE", "CON", "NECT", "H", "T", "P"}
Lower == {"a", "b"}
Digit == {"1", "2"}
Letter == Upper \cup Lower
Word == {"Content-", "Length", "Transfer-", "Encoding", "Connection", "Other",
         "close", "keep-", "alive", "chunked"}
Printed == Letter \cup Digit \cup Word \cup {"sp", "/", ":", ".", "-"}
Token == Printed \cup {"cr", "lf", "ctl"}

(* A transition of a parser: in which bytes, to which state, and the field *)
(* that ends (gets its len) or begins (gets its data) there.               *)
Go(on, to) == [on |-> on, to |-> to, ends |-> {}, begins |-> {}]
Begins(f, on, to) == [Go(on, to) EXCEPT !.begins = {f}]
Ends(f, on, to) == [Go(on, to) EXCEPT !.ends = {f}]

(* http_request_head_parse_request_line: the transitions of every state;   *)
(* any other byte is an ERROR.                                             *)
RequestLine == [
  s_start |-> {Begins("method", Upper, "s_method"),
               Go(Token \ Upper, "s_start")},
  s_method |-> {Go(Upper, "s_method"),
                Ends("method", {"sp"}, "s_after_method")},
  s_after_method |-> {Go({"sp"}, "s_after_method"),
                      Begins("schema", Lower, "s_schema"),
                      Begins("uri", {"/"}, "s_uri")},
  s_after_connect |-> {Go({"sp"}, "s_after_connect"),
                       Begins("host", Lower \cup Digit, "s_host")},
  s_schema |-> {Go(Lower, "s_schema"),
                Ends("schema", {":"}, "s_schema_slash")},
  s_schema_slash |-> {Go({"/"}, "s_schema_slash_slash"),
                      Go(Token \ {"/"}, "s_schema_slash")},
  s_schema_slash_slash |-> {Go({"/"}, "s_host_start"),
                            Go(Token \ {"/"}, "s_schema_slash_slash")},
  s_host_start |-> {Begins("host", Token, "s_host")},
  s_host |-> {Go(Letter \cup Digit \cup {".", "-"}, "s_host"),
              Ends("host", {":"}, "s_colon"),
              [Ends("host", {"/"}, "s_uri") EXCEPT !.begins = {"uri"}]},
  s_colon |-> {Begins("port", Digit, "s_port")},
  s_port |-> {Go(Digit, "s_port"), Ends("port", {"sp"}, "s_after_uri"),
              [Ends("port", {"/"}, "s_uri") EXCEPT !.begins = {"uri"}]},
  s_uri |-> {Go(Token \ {"sp"}, "s_uri"), Ends("uri", {"sp"}, "s_after_uri")},
  s_after_uri |-> {Go({"sp"}, "s_after_uri"),
                   Begins("http_version", Letter, "s_version")},
  s_version |-> {Go(Letter \cup Digit \cup {"/", "."}, "s_version"),
                 Ends("http_version", {"cr"}, "s_end")},
  s_end |-> {Go({"lf"}, "DONE")}]

(* http_response_head_parse_response_line.                                 *)
ResponseLine == [
  start |-> {Go({"H"}, "h")},
  h |-> {Go({"T"}, "ht")},
  ht |-> {Go({"T"}, "htt")},
  htt |-> {Go({"P"}, "http")},
  http |-> {Go({"/"}, "http_slash")},
  http_slash |-> {Begins("http_version", Digit \cup {"."}, "version")},
  version |-> {Go(Digit \cup {"."}, "version"),
               Ends("http_version", {"sp"}, "code_start")},
  code_start |-> {Begins("http_code", Digit, "code")},
  code |-> {Go(Digit, "code"), Ends("http_code", {"sp"}, "before_string")},
  before_string |-> {Begins("http_string", Token, "string")},
  string |-> {Go(Token \ {"cr"}, "string"), Ends("http_string", {"cr"}, "r")},
  r |-> {Go({"lf"}, "DONE")}]

(* The parse_header_line of both; state none stands for the numbers that   *)
(* no case of its switch has.                                              *)
HeaderLine == [
  s_start |-> {Go({"cr"}, "s_header_end_r"),
               Begins("header_key", Printed, "s_name")},
  s_name |-> {Go(Printed \ {":"}, "s_name"),
              Ends("header_key", {":"}, "s_value_before")},
  s_value_before |-> {Go({"sp"}, "s_value_before"),
                      Begins("header_value", Token \ {"sp"}, "s_value")},
  s_value |-> {Go(Token \ {"cr"}, "s_value"),
               Ends("header_value", {"cr"}, "s_almost_done")},
  s_almost_done |-> {Go({"lf"}, "OK")},
  s_header_end_r |-> {Go({"lf"}, "HTTP_PARSE_HEADER_DONE")},
  none |-> {Go(Token, "none")}]

(* A state of the status line, read as one of the header line: both are    *)
(* numbers.                                                                *)
Renumbered(state) ==
  CASE state = "start" -> "s_start"
    [] state = "h" -> "s_name"
    [] state = "ht" -> "s_value_before"
    [] state = "htt" -> "s_value"
    [] state = "http" -> "s_almost_done"
    [] state = "http_slash" -> "s_header_end_r"
    [] OTHER -> "none"

-----------------------------------------------------------------------------
(* Heads as the peer writes them: every byte with the field it is part of. *)

In(f, tokens) == [i \in DOMAIN tokens |-> <<f, tokens[i]>>]
Sep(tokens) == In("", tokens)
CRLF == <<"cr", "lf">>

Stream == IF Len(heads) = 1 THEN heads[1].bytes
          ELSE heads[1].bytes \o heads[2].bytes

(* Request lines, with what may stand before them, and status lines.       *)
RequestLines ==
  LET Version == Sep(<<"sp">>) \o In("http_version", <<"H", "/", "1">>)
                 \o Sep(CRLF)
      uri == In("uri", <<"/", "a">>)
      Absolute == {In("schema", <<"a", "b">>) \o Sep(<<":", "/", "/">>)
                   \o In("host", <<"b", ".", "a">>) \o port \o uri :
                   port \in {<<>>, Sep(<<":">>) \o In("port", <<"2", "1">>)}}
  IN  {Sep(lead) \o In("method", <<"GE", "T">>) \o Sep(<<"sp">>) \o to
         \o Version : lead \in {<<>>, CRLF}, to \in {uri} \cup Absolute}
      \cup
      {In("method", <<"CON", "NECT">>) \o Sep(<<"sp">>)
         \o In("host", <<"a", "-", "1">>) \o Sep(<<":">>)
         \o In("port", <<"2">>)
         \o Version}

StatusLines ==
  {Sep(<<"H", "T", "T", "P", "/">>) \o In("http_version", <<"1", ".">>)
     \o Sep(<<"sp">>) \o In("http_code", <<"2", "1">>) \o Sep(<<"sp">>)
     \o In("http_string", string) \o Sep(CRLF) :
     string \in {<<"GE">>, <<"GE", "sp">>}}

(* Headers; one has no value.                                              *)
Header(name, value) == In("name", name) \o Sep(<<":">> \o value \o CRLF)
Headers == [
  length |-> Header(<<"Content-", "Length">>, <<"sp", "1", "2">>),
  chunked |-> Header(<<"Transfer-", "Encoding">>, <<"sp", "chunked">>),
  close |-> Header(<<"Connection">>, <<"sp", "close">>),
  keep |-> Header(<<"Connection">>, <<"keep-", "alive">>),
  other |-> Header(<<"Other">>, <<"sp", "a", ":", "b">>),
  bare |-> Header(<<"Other">>, <<>>)]

(* Heads of a line and some headers, in any order; not more than one that  *)
(* says how long the body is, or whether the connection stays.             *)
NameSets(max) ==
  {ns \in SUBSET DOMAIN Headers :
               /\ Cardinality(ns) <= max
               /\ ~{"length", "chunked"} \subseteq ns
               /\ ~{"close", "keep"} \subseteq ns}
Sound(lines, max) ==
  {[bytes |-> line \o FlattenSeq([i \in DOMAIN names |-> Headers[names[i]]])
              \o Sep(CRLF),
    names |-> ToSet(names), damaged |-> 0, longer |-> FALSE] :
   line \in lines, names \in UNION {SetToSeqs(ns) : ns \in NameSets(max)}}

(* One byte that no head has in this place: in a method, a port, a version,*)
(* a code or a name.                                                       *)
Damaged(m) ==
  {[m EXCEPT !.bytes[i][2] = "ctl", !.damaged = i] :
     i \in {j \in 2..Len(m.bytes) :
             /\ m.bytes[j][1] \in {"method", "port", "http_version",
                                   "http_code", "name"}
             /\ m.bytes[j][1] = "method" => m.bytes[j - 1][1] = "method"}}

(* A word that has a limit is one token longer (a response's version has   *)
(* none).                                                                  *)
Longer(m) ==
  {[m EXCEPT !.bytes = InsertAt(@, i, @[i]), !.longer = TRUE] :
     i \in {j \in DOMAIN m.bytes :
             m.bytes[j][1] \in {"method", "uri", "http_version", "http_code"}}}

(* What a reader of the whole head finds: a field is where its bytes are.  *)
NoString == [data |-> 0, len |-> 0]
Written(m, f) ==
  LET is == {i \in DOMAIN m.bytes : m.bytes[i][1] = f}
  IN  IF is = {} THEN NoString
      ELSE [data |-> CHOOSE i \in is : \A j \in is : i <= j,
            len |-> Cardinality(is)]

-----------------------------------------------------------------------------
Field == {"method", "schema", "host", "port", "uri", "http_version",
          "http_code", "http_string", "header_key", "header_value"}

Contents(s) == [i \in 1..s.len |-> Stream[s.data + i - 1][2]]

(* http_request_head_create, http_response_head_create on a fresh entry of *)
(* the pool, and on one that was freed (slip: the type of the body stays). *)
Zeroed == [handler |-> "NULL", state |-> "",
           str |-> [f \in Field |-> NoString],
           content_length |-> NoString, body_type |-> "NULL",
           transfer_encoding |-> FALSE, keepalive |-> FALSE]
create(h) == [h EXCEPT !.handler = "line",
                !.state = IF role = "request" THEN "s_start" ELSE "start"]
free_keep(h) == [Zeroed EXCEPT !.body_type = h.body_type]
free(h) == Zeroed

(* The part of a parser's loop that looks at byte b, at p.                 *)
TooLong(k) ==
  /\ k.state = "s_version"
  /\ k.p - k.str["http_version"].data > VersionMax

Length(k, f) == k.p - k.str[f].data

Connects(k) ==
  k.state = "s_method"
    /\ Contents([k.str["method"] EXCEPT !.len = Length(k, "method")])
         = <<"CON", "NECT">>

Admits(k, t) ==
  /\ "method" \in t.ends => Length(k, "method") \in 1..MethodMax
  /\ "http_code" \in t.ends => Length(k, "http_code") = CodeLen

(* A byte no state has (slip: it is only logged, as in s_schema_slash).    *)
Illegal_logged(k) == [k EXCEPT !.p = @ + 1]
Illegal(k) == [k EXCEPT !.rc = "ERROR"]

Byte(table, k, b) ==
  LET ts == {t \in table[k.state] : b \in t.on /\ Admits(k, t)}
  IN  IF k.rc # "AGAIN" THEN k
      ELSE IF ts = {} \/ TooLong(k) THEN Illegal(k)
      ELSE LET t == CHOOSE t \in ts : TRUE
               str == [f \in Field |->
                 IF f \in t.begins THEN [k.str[f] EXCEPT !.data = k.p]
                 ELSE IF f \in t.ends
                   THEN [k.str[f] EXCEPT !.len = Length(k, f)]
                 ELSE k.str[f]]
           IN  [state |-> IF b = "sp" /\ Connects(k) THEN "s_after_connect"
                          ELSE t.to,
                str |-> str,
                p |-> k.p + 1,
                rc |-> IF t.to \in DOMAIN table THEN "AGAIN" ELSE t.to]

(* A call of a parser, from meta->pos to what was received.                *)
Parse(table, to) ==
  LET bytes == Stream
      k[i \in (pos - 1)..to] ==
        IF i < pos
          THEN [state |-> hd.state, str |-> hd.str, p |-> pos, rc |-> "AGAIN"]
          ELSE Byte(table, k[i - 1], bytes[i][2])
  IN  k[IF to < pos THEN pos - 1 ELSE to]

-----------------------------------------------------------------------------
Lowest(a, b) == IF a < b THEN a ELSE b

(* http_request_head_recv, http_response_head_recv when recv has bytes.    *)
(* Only after AGAIN, and not while bytes are left to parse (slip: with no  *)
(* look at the room).                                                      *)
recv_all ==
  last' \in IF rc = "AGAIN" /\ pos > last THEN (last + 1)..Len(Stream)
            ELSE {last}
recv ==
  last' \in IF rc = "AGAIN" /\ pos > last
              THEN (last + 1)..Lowest(BufSize, Len(Stream))
              ELSE {last}

Fails == phase' = "error" /\ UNCHANGED <<pos, rc, hd>>

(* A parser wants more: the buffer may be full; what it has is saved.      *)
Full == last' = BufSize

WantsMore(k, skipped) ==
  IF Full THEN Fails
  ELSE /\ pos' = k.p + skipped
       /\ rc' = "AGAIN"
       /\ hd' = [hd EXCEPT !.state = k.state, !.str = k.str]
       /\ UNCHANGED phase

http_request_line_done(k) ==
  [hd EXCEPT !.handler = "headers", !.state = "s_start", !.str = k.str]
http_response_line_done(k) ==
  [hd EXCEPT !.handler = "headers", !.state = Renumbered(@), !.str = k.str]

http_request_head_process_request_line ==
  /\ phase = "reading" /\ role = "request" /\ hd.handler = "line"
  /\ recv
  /\ LET k == Parse(RequestLine, last')
     IN  \/ /\ k.rc = "DONE" /\ k.str["uri"].len <= UriMax
            /\ pos' = k.p
            /\ rc' = "AGAIN"
            /\ hd' = http_request_line_done(k)
            /\ UNCHANGED phase
         \/ k.rc = "DONE" /\ k.str["uri"].len > UriMax /\ Fails
         \/ k.rc = "ERROR" /\ Fails
         \/ k.rc = "AGAIN" /\ WantsMore(k, 0)
  /\ UNCHANGED <<role, heads, cuts>>

(* After AGAIN, meta->pos is one beyond what was received; after DONE, the *)
(* state is what the last AGAIN saved.                                     *)
http_response_head_process_response_line ==
  /\ phase = "reading" /\ role = "response" /\ hd.handler = "line"
  /\ cuts < MaxCuts
  /\ recv
  /\ LET k == Parse(ResponseLine, last')
     IN  /\ \/ /\ k.rc = "DONE"
               /\ pos' = k.p
               /\ rc' = "AGAIN"
               /\ hd' = http_response_line_done(k)
               /\ UNCHANGED phase
            \/ k.rc = "ERROR" /\ Fails
            \/ k.rc = "AGAIN" /\ WantsMore(k, 1)
         /\ cuts' = IF k.rc = "AGAIN" THEN cuts + 1 ELSE cuts
  /\ UNCHANGED <<role, heads>>

-----------------------------------------------------------------------------
(* The headers that are looked at.  That header_key also ends at the '\r'   *)
(* of a request's line is left out: a later name begins and ends it anew.  *)
Is(k, name) == Contents(k.str["header_key"]) = name

l_atoi(s) == IF \A i \in DOMAIN s : s[i] \in Digit THEN s ELSE <<"ERROR">>

(* A line of a request: content_length and transfer_encoding are kept,     *)
(* and read when the head is complete (slip: the saved state stays).       *)
RequestHeader_state(k) == [hd EXCEPT !.str = k.str]
RequestHeader(k) ==
  [hd EXCEPT
    !.str = k.str, !.state = "s_start",
    !.content_length = IF Is(k, <<"Content-", "Length">>)
                         THEN k.str["header_value"] ELSE @,
    !.transfer_encoding = @ \/ Is(k, <<"Transfer-", "Encoding">>),
    !.keepalive = IF Is(k, <<"Connection">>)
                    THEN k.str["header_value"].len > CloseLen ELSE @]

ResponseHeader(k) ==
  [hd EXCEPT
    !.str = k.str, !.state = "s_start",
    !.content_length = IF Is(k, <<"Content-", "Length">>)
                         THEN k.str["header_value"] ELSE @,
    !.body_type = IF Is(k, <<"Content-", "Length">>) THEN "CONTENT"
                  ELSE IF Is(k, <<"Transfer-", "Encoding">>) THEN "CHUNK"
                  ELSE @,
    !.keepalive = IF Is(k, <<"Connection">>)
                    THEN k.str["header_value"].len > CloseLen ELSE @]

BodyType(h) ==
  IF h.content_length # NoString THEN "CONTENT"
  ELSE IF h.transfer_encoding THEN "CHUNK" ELSE "NULL"

(* One turn of the loop in both process_headers.                           *)
process_headers ==
  /\ phase = "reading" /\ hd.handler = "headers"
  /\ recv
  /\ LET k == Parse(HeaderLine, last')
         length == l_atoi(Contents(k.str["header_value"]))
         done == [hd EXCEPT !.str = k.str, !.state = "s_start"]
     IN  \/ /\ k.rc = "OK"
            /\ role = "response" /\ Is(k, <<"Content-", "Length">>) =>
                 length # <<"ERROR">>
            /\ pos' = k.p
            /\ rc' = "OK"
            /\ hd' = IF role = "request" THEN RequestHeader(k)
                                         ELSE ResponseHeader(k)
            /\ UNCHANGED phase
         \/ /\ k.rc = "OK"
            /\ role = "response" /\ Is(k, <<"Content-", "Length">>)
            /\ length = <<"ERROR">>
            /\ Fails
         \/ /\ k.rc = "HTTP_PARSE_HEADER_DONE"
            /\ pos' = k.p
            /\ \/ /\ role = "request"
                  /\ l_atoi(Contents(hd.content_length)) # <<"ERROR">>
                  /\ hd' = [done EXCEPT !.body_type = BodyType(done)]
                  /\ phase' = "done"
               \/ /\ role = "request"
                  /\ l_atoi(Contents(hd.content_length)) = <<"ERROR">>
                  /\ hd' = [done EXCEPT !.body_type = BodyType(done)]
                  /\ phase' = "error"
               \/ /\ role = "response"
                  /\ hd' = done
                  /\ phase' = "done"
            /\ rc' = "AGAIN"
         \/ k.rc = "ERROR" /\ Fails
         \/ k.rc = "AGAIN" /\ WantsMore(k, 0)
  /\ UNCHANGED <<role, heads, cuts>>

-----------------------------------------------------------------------------
(* tunnel_local_process_request: a CONNECT and bytes behind it.            *)
IsConnect == Contents(hd.str["method"]) = <<"CON", "NECT">>

tunnel_local_process_request ==
  /\ phase = "done" /\ role = "request"
  /\ phase' = IF IsConnect THEN IF pos # last + 1 THEN "over" ELSE "https"
              ELSE "answer"
  /\ UNCHANGED <<role, heads, last, pos, rc, hd, cuts>>

(* The request was answered.  tunnel_process_finish of one without a body  *)
(* moves what is behind it to the start of the buffer and reads on; when   *)
(* that is longer than the request was, memcpy has overlapping arguments.  *)
Busy == last + 1 - pos
tunnel_process_finish ==
  /\ phase = "answer" /\ Len(heads) > 1
  /\ hd.keepalive /\ hd.body_type = "NULL"
  /\ heads' = Tail(heads)
  /\ last' = Busy /\ pos' = 1 /\ rc' = "AGAIN"
  /\ hd' = create(free(hd))
  /\ phase' \in {"reading"} \cup IF Busy >= pos THEN {"garbled"} ELSE {}
  /\ UNCHANGED <<role, cuts>>

(* A response was passed on.  The next is read from another connection,    *)
(* with an entry that was freed.                                           *)
NextResponse ==
  /\ phase = "done" /\ role = "response" /\ Len(heads) > 1
  /\ heads' = Tail(heads)
  /\ last' = 0 /\ pos' = 1 /\ rc' = "AGAIN"
  /\ hd' = create(free(hd))
  /\ phase' = "reading" /\ cuts' = 0
  /\ UNCHANGED role

(* recv fails: the peer is gone, or a line ended where the buffer does.    *)
Gone ==
  /\ phase = "reading" /\ rc = "AGAIN" /\ pos > last
  /\ phase' = "over"
  /\ UNCHANGED <<role, heads, last, pos, rc, hd, cuts>>

(* One head and then another: any line before the shortest, the shortest   *)
(* before any; a damaged or longer one comes alone.                        *)
Talks(lines) ==
  LET short == {CHOOSE line \in lines : \A l \in lines : Len(line) <= Len(l)}
      first(ls) == {m \in Sound(ls, 1) : m.names \in {{"length"}, {"keep"}}}
  IN  {<<m, n>> : m \in first(lines), n \in Sound(short, 1)}
      \cup {<<m, n>> : m \in first(short),
                      n \in Sound(lines, 1) \cup Sound(short, MaxHeaders)}
      \cup {<<d>> : d \in UNION {Damaged(m) \cup Longer(m) : m \in first(lines)}}

Init ==
  /\ \/ role = "request" /\ heads \in Talks(RequestLines)
     \/ role = "response" /\ heads \in Talks(StatusLines)
  /\ last = 0 /\ pos = 1 /\ rc = "AGAIN"
  /\ hd = create(Zeroed)
  /\ phase = "reading"
  /\ cuts = 0

Next ==
  \/ http_request_head_process_request_line
  \/ http_response_head_process_response_line
  \/ process_headers \/ tunnel_local_process_request
  \/ tunnel_process_finish \/ NextResponse \/ Gone

Spec == Init /\ [][Next]_vars

-----------------------------------------------------------------------------
(* Properties.                                                             *)

current == Head(heads)
Size == Len(current.bytes)

(* The variables have their types; the buffer is never overrun, and no     *)
(* word beyond its limit is kept.                                          *)
TypeOK ==
  /\ role \in {"request", "response"}
  /\ last \in 0..BufSize
  /\ pos \in 1..(BufSize + 2)
  /\ rc \in {"AGAIN", "OK"}
  /\ hd.handler \in {"line", "headers"}
  /\ hd.state \in CASE role = "request" /\ hd.handler = "line" ->
                        DOMAIN RequestLine
                    [] role = "response" /\ hd.handler = "line" ->
                        DOMAIN ResponseLine
                    [] OTHER -> DOMAIN HeaderLine
  /\ DOMAIN hd.str = Field
  /\ \A f \in Field : hd.str[f].data \in 0..BufSize
                       /\ hd.str[f].len \in 0..BufSize
  /\ hd.str["method"].len <= MethodMax
  /\ hd.str["http_code"].len \in {0, CodeLen}
  /\ role = "request" => hd.str["http_version"].len <= VersionMax
  /\ role = "request" /\ hd.handler = "headers" =>
       hd.str["uri"].len <= UriMax
  /\ hd.body_type \in {"NULL", "CONTENT", "CHUNK"}
  /\ hd.keepalive \in BOOLEAN
  /\ phase \in {"reading", "done", "answer", "https", "error", "over",
                "garbled"}
  /\ cuts \in 0..MaxCuts

(* Heads the parsers are held to: without damage, a word beyond its limit  *)
(* and an empty value (which swallows the line behind it), the status line *)
(* in one piece (or the byte at the cut is skipped, and the state kept for *)
(* the headers).                                                           *)
Regular == /\ current.damaged = 0 /\ ~current.longer
           /\ "bare" \notin current.names /\ cuts = 0

(* However its bytes arrive, on a fresh entry or on one used before, with  *)
(* other heads before and behind it: a head is read up to its last byte,   *)
(* every field is where it was written, and so is what the body and the    *)
(* connection depend on.                                                   *)
ReadsAsWritten ==
  phase \in {"done", "answer", "https"} /\ Regular =>
    /\ pos = Size + 1
    /\ \A f \in Field \ {"header_key", "header_value"} :
         hd.str[f] = Written(current, f)
    /\ hd.body_type = CASE "length" \in current.names -> "CONTENT"
                        [] "chunked" \in current.names -> "CHUNK"
                        [] OTHER -> "NULL"
    /\ hd.body_type = "CONTENT" =>
         Contents(hd.content_length) = <<"1", "2">>
    /\ hd.keepalive = ("keep" \in current.names)

(* A head that fits is neither refused nor waited on: ERROR is for heads   *)
(* larger than the buffer, and for damage, and a parser that waits for     *)
(* more bytes still lacks some of its head, wherever the pieces ended.     *)
TakesWhatFits ==
  Regular =>
    /\ phase = "error" => Size > BufSize
    /\ phase = "reading" /\ rc = "AGAIN" /\ pos > last => last < Size

(* Damage is an ERROR as soon as it is parsed, wherever the pieces end.    *)
RejectsDamage ==
  current.damaged # 0 /\ cuts = 0 =>
    phase \in {"reading", "error", "over"} /\ pos <= current.damaged
=============================================================================

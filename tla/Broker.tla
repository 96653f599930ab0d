------------------------------- MODULE Broker -------------------------------
(***************************************************************************)
(* Brokered outbound requests (crates/sv-core/src/broker.rs): the request  *)
(* is validated against the allowlist of a secret, its host is resolved    *)
(* and screened, and the call is made with the secret in one header, by a  *)
(* client pinned to the screened addresses. The name service and the       *)
(* server are external: answers change at any time, a server sends any     *)
(* headers and body and fails at any time.                                 *)
(***************************************************************************)
EXTENDS Integers, Sequences

CONSTANTS
    BrokerRequests,  \* requests an agent asks for
    Secrets,         \* resolved secrets: allowlist and injection
    FirstAnswers,    \* sets of addresses that a name may resolve to
    Answers,         \* what it may resolve to once the call has begun
    Replies,         \* responses of servers
    MaxResponse,     \* MAX_RESPONSE_BYTES
    NoReply

\* An agent does not know a secret: it asks for it by name.
ASSUME BrokerAssumption ==
    /\ MaxResponse \in Nat
    /\ \A r \in BrokerRequests : \A n \in DOMAIN r.headers :
          \A i \in DOMAIN r.headers[n] : r.headers[n][i] # "secret"

\* One entry of the allowlist of a secret.
BrokerAllow ==
    [host : STRING, path_prefix : Seq(STRING), methods : SUBSET STRING,
     allow_private_ip : BOOLEAN]

\* An address is four octets or eight segments.
Octet == 0..255
Segment == 0..65535

ASSUME BrokerTypes ==
    /\ \A s \in Secrets : s.allow \in Seq(BrokerAllow)
    /\ \A r \in BrokerRequests : r.url.path \in Seq(STRING)
    /\ \A ip \in UNION (FirstAnswers \cup Answers) :
          \/ Len(ip) = 4 /\ ip \in Seq(Octet)
          \/ Len(ip) = 8 /\ ip \in Seq(Segment)

VARIABLES
    broker,     \* the call in progress, or the last one
    dns         \* what the name of the host resolves to now

brokerVars == <<broker, dns>>

BrokerInit == broker = [pc |-> "idle"] /\ dns = {}

-----------------------------------------------------------------------------
(* Validation. A URL is parsed by the url crate; a path is a sequence of   *)
(* characters, with "%" for an encoded dot or separator.                   *)

controlled == {"proxy-authorization", "host", "content-length",
    "transfer-encoding", "connection", "proxy-connection", "upgrade", "te",
    "trailer"}

\* Sizes, the method and the agent's headers (lower case names).
validate_request_shape(req) ==
    CASE req.oversized -> "RequestTooLarge"
      [] ~req.oversized /\
         \E n \in DOMAIN req.headers : n \in controlled \cup {"authorization"}
           -> "HeaderNotPermitted"
      [] OTHER -> "Ok"

StartsWith(s, p) == Len(p) <= Len(s) /\ SubSeq(s, 1, Len(p)) = p

path_prefix_matches(prefix, path) ==
    /\ StartsWith(prefix, <<"/">>)
    /\ IF prefix[Len(prefix)] = "/" THEN StartsWith(path, prefix)
       ELSE \/ path = prefix
            \/ StartsWith(path, Append(prefix, "/"))

Matches(entry, req) ==
    /\ entry.host = req.url.host
    /\ path_prefix_matches(entry.path_prefix, req.url.path)
    /\ req.method \in entry.methods

\* The error of the first check that fails, or Ok.
validate_against_allowlist(req, allow) ==
    LET shape == validate_request_shape(req)
        url == req.url
    IN  CASE shape # "Ok" -> shape
          [] shape = "Ok" /\ url.scheme # "https" -> "SchemeNotHttps"
          [] shape = "Ok" /\ url.scheme = "https" /\
             (url.credentials \/ url.fragment \/
                 \E i \in DOMAIN url.path : url.path[i] = "%") -> "InvalidUrl"
          [] OTHER -> IF \E i \in DOMAIN allow : Matches(allow[i], req)
                      THEN "Ok" ELSE "NotAllowed"

\* find takes the first entry that matches.
FirstMatch(allow, req) ==
    allow[CHOOSE i \in DOMAIN allow :
             /\ Matches(allow[i], req)
             /\ \A j \in DOMAIN allow : Matches(allow[j], req) => i <= j]

-----------------------------------------------------------------------------
(* Screening. A version 4 address is its four octets, a version 6 address  *)
(* its eight segments.                                                     *)

\* A plausible fault: the shared range ends one octet too early.
is_blocked_v4_short(o) ==
    \/ o[1] \in {0, 10, 127}
    \/ o[1] >= 224
    \/ o[1] = 100 /\ o[2] \in 64..126
    \/ o[1] = 172 /\ o[2] \in 16..31
    \/ o[1] = 192 /\ o[2] = 168
    \/ o[1] = 169 /\ o[2] = 254

is_blocked_v4(o) ==
    \/ o[1] = 127
    \/ o[1] = 10
    \/ o[1] = 172 /\ o[2] \in 16..31
    \/ o[1] = 192 /\ o[2] = 168
    \/ o[1] = 169 /\ o[2] = 254
    \/ o[1] = 0
    \/ o[1] = 100 /\ o[2] \in 64..127
    \/ o[1] = 192 /\ o[2] = 0 /\ o[3] \in {0, 2}
    \/ o[1] = 192 /\ o[2] = 88 /\ o[3] = 99
    \/ o[1] = 198 /\ o[2] \in {18, 19}
    \/ o[1] = 198 /\ o[2] = 51 /\ o[3] = 100
    \/ o[1] = 203 /\ o[2] = 0 /\ o[3] = 113
    \/ o[1] >= 224

Zeros(seg, a, b) == \A i \in a..b : seg[i] = 0

\* The version 4 address in the last two segments.
Embedded(seg) ==
    <<seg[7] \div 256, seg[7] % 256, seg[8] \div 256, seg[8] % 256>>

\* & 0xfe00, 0xffc0 and 0xff00 keep the leading 7, 10 and 8 bits.
is_blocked_v6(seg) ==
    \/ Zeros(seg, 1, 7) /\ seg[8] \in {0, 1}
    \/ seg[1] \div 256 = 255
    \/ seg[1] \div 512 = 126
    \/ seg[1] \div 64 \in {1018, 1019}
    \/ seg[1] = 8193 /\ seg[2] = 3512
    \/ Zeros(seg, 1, 5) /\ seg[6] = 65535 /\ is_blocked_v4(Embedded(seg))
    \/ seg[1] = 100 /\ seg[2] = 65435 /\ Zeros(seg, 3, 6) /\ is_blocked_v4(Embedded(seg))

is_blocked_ip(ip) == IF Len(ip) = 4 THEN is_blocked_v4(ip) ELSE is_blocked_v6(ip)

-----------------------------------------------------------------------------
(* execute.                                                                *)

Ended(result) == [broker EXCEPT !.pc = "done", !.result = result]

\* is_enabled and the allowlist; nothing has left the process. A call keeps
\* nothing for the next one, so one call is all there is to follow.
Validate(req, secret, enabled) ==
    /\ broker.pc = "idle"
    /\ LET v == IF enabled THEN validate_against_allowlist(req, secret.allow)
                ELSE "Disabled"
       IN  broker' = [pc |-> IF v = "Ok" THEN "resolve" ELSE "done",
                      req |-> req, secret |-> secret, screened |-> {},
                      connected |-> {}, sent |-> NoReply, buffered |-> 0,
                      reply |-> NoReply, returned |-> NoReply, result |-> v]
    /\ UNCHANGED dns

\* resolve_and_screen: one blocked address refuses the call.
ResolveAndScreen ==
    /\ broker.pc = "resolve"
    /\ LET entry == FirstMatch(broker.secret.allow, broker.req) IN
       broker' =
          IF dns = {} THEN Ended("Dns")
          ELSE IF ~entry.allow_private_ip /\ \E ip \in dns : is_blocked_ip(ip)
          THEN Ended("BlockedAddress")
          ELSE [broker EXCEPT !.pc = "send", !.screened = dns]
    /\ UNCHANGED dns

\* The name service changes its answer.
Rebind(a) == dns' = a /\ UNCHANGED broker

\* The header that carries the secret; a transport header is refused.
owned_header_name(secret) ==
    IF secret.injection = "bearer" THEN "authorization" ELSE secret.injection

\* The agent's headers without the owned one, and the owned one with the secret.
RequestHeaders(req, secret) ==
    LET own == owned_header_name(secret) IN
    [n \in DOMAIN req.headers \cup {own} |->
        IF n = own THEN <<"secret">> ELSE req.headers[n]]

\* resolve_to_addrs: the addresses the client may connect to.
Pinned == broker.screened

\* A secret may not be injected as a transport header.
RefuseInjection ==
    /\ broker.pc = "send"
    /\ owned_header_name(broker.secret) \in controlled
    /\ broker' = Ended("HeaderNotPermitted")
    /\ UNCHANGED dns

\* The client connects to one of its addresses and sends the request.
Connect(ip) ==
    /\ broker.pc = "send"
    /\ owned_header_name(broker.secret) \notin controlled
    /\ ip \in Pinned
    /\ broker' = [broker EXCEPT !.pc = "sent", !.connected = {ip},
                    !.sent = RequestHeaders(broker.req, broker.secret)]
    /\ UNCHANGED dns

\* The connection fails, times out or breaks; the error is redacted.
Upstream ==
    /\ broker.pc \in {"send", "sent", "body"}
    /\ owned_header_name(broker.secret) \notin controlled
    /\ broker' = Ended("Upstream")
    /\ UNCHANGED dns

stripped == {"set-cookie", "authorization", "proxy-authorization"}

redact_secret(v) ==
    [i \in DOMAIN v |-> IF v[i] = "secret" THEN "[redacted]" ELSE v[i]]

\* The status and the headers of the reply, and the advertised length.
Respond(reply) ==
    /\ broker.pc = "sent"
    /\ broker' =
          IF reply.content_length > MaxResponse THEN Ended("ResponseTooLarge")
          ELSE [broker EXCEPT !.pc = "body", !.reply = reply,
                  !.returned = [n \in (DOMAIN reply.headers \ stripped) \cup {"body"} |->
                                    IF n = "body" THEN <<>>
                                    ELSE redact_secret(reply.headers[n])]]
    /\ UNCHANGED dns

\* A plausible fault: the advertised length alone is compared with the cap.
FitsAdvertised(chunk) == TRUE

Fits(chunk) == broker.buffered + chunk <= MaxResponse

\* One chunk of the body is buffered if it fits under the cap.
Chunk(n) ==
    /\ broker.pc = "body"
    /\ broker.buffered < broker.reply.length
    /\ n \in 1..(broker.reply.length - broker.buffered)
    /\ broker' = IF Fits(n) THEN [broker EXCEPT !.buffered = @ + n]
                 ELSE Ended("ResponseTooLarge")
    /\ UNCHANGED dns

Return ==
    /\ broker.pc = "body"
    /\ broker.buffered = broker.reply.length
    /\ broker' = [Ended("Ok") EXCEPT
                    !.returned.body = redact_secret(broker.reply.body)]
    /\ UNCHANGED dns

BrokerNext ==
    \/ \E r \in BrokerRequests, s \in Secrets, e \in BOOLEAN : Validate(r, s, e)
    \/ ResolveAndScreen
    \/ \E a \in FirstAnswers : broker.pc = "idle" /\ Rebind(a)
    \/ \E a \in Answers : broker.pc # "idle" /\ Rebind(a)
    \/ RefuseInjection
    \/ \E ip \in UNION (Answers \cup FirstAnswers) : Connect(ip)
    \/ Upstream
    \/ \E r \in Replies : Respond(r)
    \/ \E n \in 1..(MaxResponse + 1) : Chunk(n)
    \/ Return

BrokerSpec == BrokerInit /\ [][BrokerNext]_brokerVars

-----------------------------------------------------------------------------
(* What a brokered call promises. The reserved ranges and the segments of  *)
(* a path are said independently of the tests of the code.                 *)

\* base/len as CIDR writes it; 16 bits at a time.
InRange(o, base, len) ==
    LET Hi(x) == x[1] * 256 + x[2]
        Lo(x) == x[3] * 256 + x[4]
    IN  IF len <= 16
        THEN Hi(o) \div 2^(16 - len) = Hi(base) \div 2^(16 - len)
        ELSE /\ Hi(o) = Hi(base)
             /\ Lo(o) \div 2^(32 - len) = Lo(base) \div 2^(32 - len)

Reserved4 ==
    {<< <<0, 0, 0, 0>>, 8>>, << <<10, 0, 0, 0>>, 8>>, << <<100, 64, 0, 0>>, 10>>,
     << <<127, 0, 0, 0>>, 8>>, << <<169, 254, 0, 0>>, 16>>,
     << <<172, 16, 0, 0>>, 12>>, << <<192, 0, 0, 0>>, 24>>,
     << <<192, 0, 2, 0>>, 24>>, << <<192, 88, 99, 0>>, 24>>,
     << <<192, 168, 0, 0>>, 16>>, << <<198, 18, 0, 0>>, 15>>,
     << <<198, 51, 100, 0>>, 24>>, << <<203, 0, 113, 0>>, 24>>,
     << <<224, 0, 0, 0>>, 3>>}

Private4(o) == \E r \in Reserved4 : InRange(o, r[1], r[2])

\* ::/127, ff00::/8, fc00::/7, fe80::/10, fec0::/10, 2001:db8::/32 and the two
\* prefixes that carry a version 4 address.
Private6(seg) ==
    \/ \A i \in 1..7 : seg[i] = 0 /\ seg[8] <= 1
    \/ seg[1] \in 65280..65535 \cup 64512..65023 \cup 65152..65279
    \/ <<seg[1], seg[2]>> = <<8193, 3512>>
    \/ /\ SubSeq(seg, 1, 6) \in {<<0, 0, 0, 0, 0, 65535>>, <<100, 65435, 0, 0, 0, 0>>}
       /\ Private4(Embedded(seg))

Private(ip) == IF Len(ip) = 4 THEN Private4(ip) ELSE Private6(ip)

\* The segments of a path: what stands between its separators.
Segments(path) ==
    LET cuts == {0} \cup {i \in DOMAIN path : path[i] = "/"} \cup {Len(path) + 1}
        NextCut(i) == CHOOSE j \in cuts : i < j /\ \A k \in cuts : i < k => j <= k
    IN  {<<i, SubSeq(path, i + 1, NextCut(i) - 1)>> : i \in cuts \ {Len(path) + 1}}

\* A path lies under a prefix when every segment of the prefix is a segment of
\* the path at the same place; an empty last one stands for whatever follows.
Under(prefix, path) ==
    /\ Segments(prefix) \ {<<Len(prefix), <<>> >>} \subseteq Segments(path)
    /\ Len(path) >= Len(prefix)

\* The secret only ever leaves for a place its owner listed: the address that
\* is connected to is one the screening saw, not private unless the entry that
\* matched opts in, whatever the name service answers meanwhile, and host, path
\* and method are under an entry of the secret's allowlist (execute,
\* resolve_and_screen, validate_against_allowlist).
LeavesOnlyForListed ==
    \A b \in {broker} : b.pc \in {"sent", "body"} =>
        \E i \in DOMAIN b.secret.allow : LET entry == b.secret.allow[i] IN
            /\ entry.host = b.req.url.host
            /\ Under(entry.path_prefix, b.req.url.path)
            /\ b.req.method \in entry.methods
            /\ \A ip \in b.connected : Private(ip) => entry.allow_private_ip

\* The secret does not come back: it went out in its one header, whatever the
\* agent put there, and neither a header nor the body that is returned holds
\* it; no more than the cap was ever buffered, though a server may advertise
\* less than it sends (execute, redact_secret).
SecretStaysOut ==
    LET Carries(v) == \E i \in DOMAIN v : v[i] = "secret" IN
    broker.pc \in {"sent", "body", "done"} =>
        /\ broker.buffered <= MaxResponse
        /\ broker.sent # NoReply =>
              {n \in DOMAIN broker.sent : Carries(broker.sent[n])}
                  = {owned_header_name(broker.secret)}
        /\ broker.returned # NoReply =>
              ~ \E n \in DOMAIN broker.returned : Carries(broker.returned[n])
=============================================================================

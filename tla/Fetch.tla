------------------------------- MODULE Fetch --------------------------------
(***************************************************************************)
(* One outgoing fetch (fetch.rs, ssrf.rs): up to MaxRedirects + 1          *)
(* requests, each to a URL and an address that are checked first, each     *)
(* with a timer, and a body that is read in chunks up to a limit.  Fetches *)
(* share nothing, so one is enough.  What the resolver and the servers     *)
(* answer is theirs: two lookups of a name need not agree.                 *)
(*                                                                         *)
(* A host is an address, LOCALHOST (or a name below it), or a domain.  A   *)
(* client is built for one host, which it connects to at the address it    *)
(* was given; any other domain it would look up by itself.  Time passes    *)
(* only while a request is under way: the lookup has no timer.  That the   *)
(* connection has a shorter timer of its own is left out: it ends some     *)
(* fetches earlier, as a lost connection does.                             *)
(***************************************************************************)
EXTENDS Naturals, Sequences

CONSTANTS Addrs,         \* IP addresses
          Blocked,       \* those in the blocked networks
          Embedded,      \* the IPv4 address in an IPv6 one, where there is one
          Domains,
          Urls,          \* [scheme, credentials, host]
          Answers,       \* what a lookup may return: sequences of addresses
          MaxRedirects, Timeout, MaxBytes,
          LOCALHOST, NULL

ASSUME LimitsAssumption ==
    MaxRedirects \in Nat /\ Timeout \in Nat /\ MaxBytes \in Nat
ASSUME HostsAssumption ==
    /\ Addrs \cap Domains = {}
    /\ LOCALHOST \notin Addrs \cup Domains
    /\ NULL \notin Addrs \cup Domains \cup {LOCALHOST}
    /\ NULL \notin Urls
    /\ Embedded \in [DOMAIN Embedded -> Addrs] /\ DOMAIN Embedded \subseteq Addrs
    /\ Answers \subseteq Seq(Addrs)

Hosts == Addrs \cup Domains \cup {LOCALHOST, NULL}
Url == [scheme : {"http", "other"}, credentials : BOOLEAN, host : Hosts]
ASSUME UrlsAssumption == Urls \subseteq Url

Client == [host : Hosts, addr : Addrs]

VARIABLES pc,
          url,     \* of this request
          hop,     \* redirects that were followed
          addr,    \* the address that was checked for it
          client,  \* the pin of the cached client, or NULL
          conn,    \* the address it is connected to
          size,    \* bytes of the body so far
          used,    \* time of this request
          time,    \* time of all requests
          result   \* how the last fetch ended

vars == <<pc, url, hop, addr, client, conn, size, used, time, result>>

Results == {"body", "ssrf", "dns", "network", "timeout", "http", "content_type",
            "too_large", "too_many_redirects"}

TypeOK ==
    /\ pc \in {"idle", "validating", "resolving", "connecting", "sending", "reading"}
    /\ url \in Urls \cup {NULL}
    /\ hop \in 0 .. MaxRedirects
    /\ addr \in Addrs \cup {NULL}
    /\ client \in Client \cup {NULL}
    /\ conn \in Addrs \cup {NULL}
    /\ size \in 0 .. MaxBytes
    /\ used \in 0 .. Timeout
    /\ time \in Nat
    /\ result \in Results \cup {NULL}

Init == /\ pc = "idle" /\ url = NULL /\ hop = 0
        /\ addr = NULL /\ client = NULL /\ conn = NULL
        /\ size = 0 /\ used = 0 /\ time = 0
        /\ result = NULL

-----------------------------------------------------------------------------
\* is_blocked_ip: an IPv4 address inside an IPv6 one decides.
IsBlocked(ip) ==
    IF ip \in DOMAIN Embedded THEN Embedded[ip] \in Blocked ELSE ip \in Blocked

\* validate_url
ValidUrl(u) ==
    /\ u.scheme = "http"        \* or https
    /\ ~u.credentials
    /\ u.host \notin {LOCALHOST, NULL}
    /\ u.host \in Addrs => ~IsBlocked(u.host)

\* resolve_validated: the first candidate that is not blocked.
FirstAllowed(answer) ==
    {answer[i] : i \in {j \in DOMAIN answer :
        /\ ~IsBlocked(answer[j])
        /\ \A k \in 1 .. j - 1 : IsBlocked(answer[k])}}

\* Mutant: the cached client is used whatever it was built for.
ClientCached == IF client # NULL THEN client ELSE [host |-> url.host, addr |-> addr]

\* The cached client if it was built for this host and address, or a new one.
ClientFor == LET pin == [host |-> url.host, addr |-> addr]
             IN IF client = pin THEN client ELSE pin

\* Where a client connects to for a host.
ConnectAddrs(c, h) == IF h \in Addrs THEN {h}
                      ELSE IF c.host = h THEN {c.addr} ELSE Addrs

\* The fetch ends; its client and its connection go with it.
End(r) ==
    /\ pc' = "idle" /\ result' = r
    /\ url' = NULL /\ hop' = 0 /\ addr' = NULL /\ client' = NULL /\ conn' = NULL
    /\ size' = 0 /\ used' = 0 /\ time' = 0

-----------------------------------------------------------------------------
\* Any URL may be stored: validate_source_url checks that of a profile, but
\* normalize only the prefix of a rule-set's.  One that does not parse goes no
\* further.
Start ==
    /\ pc = "idle"
    /\ \/ /\ url' \in Urls
          /\ pc' = "validating"
          /\ result' = NULL
          /\ UNCHANGED <<hop, addr, client, conn, size, used, time>>
       \/ End("ssrf")

\* Mutant: the first URL is trusted, only redirects are checked.
ValidateRedirects ==
    /\ pc = "validating"
    /\ IF hop = 0 \/ ValidUrl(url)
       THEN pc' = "resolving" /\ UNCHANGED <<url, hop, addr, client, conn, size, used, time, result>>
       ELSE End("ssrf")

Validate ==
    /\ pc = "validating"
    /\ IF ValidUrl(url)
       THEN pc' = "resolving" /\ UNCHANGED <<url, hop, addr, client, conn, size, used, time, result>>
       ELSE End("ssrf")

\* A literal address is the only candidate there is; a name is looked up.
Candidates(h) == IF h \in Addrs THEN {<<h>>} ELSE Answers

\* The lookup fails, gives no address, none that is allowed, or one.
Resolve ==
    /\ pc = "resolving"
    /\ \E answer \in Candidates(url.host) :
          \/ /\ addr' \in FirstAllowed(answer)
             /\ pc' = "connecting"
             /\ UNCHANGED <<url, hop, client, conn, size, used, time, result>>
          \/ /\ FirstAllowed(answer) = {}
             /\ End(IF answer = <<>> THEN "dns" ELSE "ssrf")

Connect ==
    /\ pc = "connecting"
    /\ client' = ClientFor
    /\ conn' \in ConnectAddrs(ClientFor, url.host)
    /\ pc' = "sending"
    /\ UNCHANGED <<url, hop, addr, size, used, time, result>>

\* Mutant: redirects are not counted.
RedirectUncounted ==
    /\ pc = "sending"
    /\ \E u \in Urls :
          /\ url' = u /\ pc' = "validating"
          /\ addr' = NULL /\ conn' = NULL /\ used' = 0 /\ hop' = hop
    /\ UNCHANGED <<client, size, time, result>>

\* A redirect is followed by hand: its target is checked like the first URL.
Redirect ==
    /\ pc = "sending"
    /\ \E u \in Urls :
          IF hop < MaxRedirects
          THEN /\ url' = u /\ pc' = "validating"
               /\ hop' = hop + 1
               /\ addr' = NULL /\ conn' = NULL /\ used' = 0
               /\ UNCHANGED <<client, size, time, result>>
          ELSE End("too_many_redirects")

\* An answer that ends the fetch: no or a bad Location, a status other than
\* success, a picture or a film.
Reject ==
    /\ pc = "sending"
    /\ \E r \in {"network", "ssrf", "http", "content_type"} : End(r)

Accept ==
    /\ pc = "sending"
    /\ pc' = "reading"
    /\ UNCHANGED <<url, hop, addr, client, conn, size, used, time, result>>

\* read_limited_bytes: no chunk is kept that would exceed the limit.
Chunk ==
    /\ pc = "reading"
    /\ \E n \in 1 .. MaxBytes + 1 :
          IF size + n <= MaxBytes
          THEN /\ size' = size + n
               /\ UNCHANGED <<pc, url, hop, addr, client, conn, used, time, result>>
          ELSE End("too_large")

\* The body is complete; a subscription has to be UTF-8.
Finish ==
    /\ pc = "reading"
    /\ End("body") \/ End("content_type")

Requesting == pc \in {"sending", "reading"}

Tick ==
    /\ Requesting
    /\ used < Timeout
    /\ used' = used + 1 /\ time' = time + 1
    /\ UNCHANGED <<pc, url, hop, addr, client, conn, size, result>>

TimedOut == Requesting /\ used = Timeout /\ End("timeout")

\* The connection is refused or lost.
Lost == pc \in {"connecting", "sending", "reading"} /\ End("network")

\* The handler that waits for the fetch is dropped.
Drop == pc # "idle" /\ End(NULL)

Next == \/ Start \/ Validate \/ Resolve \/ Connect \/ Redirect \/ Reject \/ Accept
        \/ Chunk \/ Finish \/ Tick \/ TimedOut \/ Lost \/ Drop

\* The code goes on and the clock runs; a server need not answer.  The
\* lookup is taken to return.
Spec == /\ Init /\ [][Next]_vars
        /\ WF_vars(Validate \/ Resolve \/ Connect)
        /\ WF_vars(Tick \/ TimedOut)

-----------------------------------------------------------------------------
(***************************************************************************)
(* Properties.                                                             *)
(***************************************************************************)

\* architecture.md, protected fetcher: every hop, the first included, is
\* checked again.  Whatever URL was stored, a connection is made for http(s)
\* without credentials and never to localhost, and it goes to the address that
\* was checked for the host of this request, whatever other lookups say.
ConnectedChecked ==
    conn # NULL =>
        LET target == IF conn \in DOMAIN Embedded THEN Embedded[conn] ELSE conn
        IN /\ url.scheme = "http" /\ ~url.credentials
           /\ url.host \notin {LOCALHOST, NULL}
           /\ url.host \in Addrs => conn = url.host
           /\ conn = addr /\ target \notin Blocked

\* No response makes the panel hold more than MaxBytes.
BodyBounded == size <= MaxBytes

\* fetch.rs:102 and architecture.md:558 call the timeout that of the whole
\* request, a total.  The code starts it again at every redirect: a fetch can
\* take this long (lookups not counted) and no longer, and downloads of the
\* profile wait behind it.
TimeBounded == time <= (MaxRedirects + 1) * Timeout

\* The time of the requests before this one.
TimePerHop == /\ time <= hop * Timeout + used
              /\ pc \in {"idle", "validating", "resolving", "connecting"} => used = 0

\* What a handler relies on at each await.
Stages ==
    /\ pc # "idle" => url # NULL
    /\ pc \in {"resolving", "connecting", "sending", "reading"} => ValidUrl(url)
    /\ pc \in {"connecting", "sending", "reading"} =>
          /\ addr # NULL /\ ~IsBlocked(addr)
          /\ url.host \in Addrs => addr = url.host
    /\ Requesting <=> conn # NULL
    /\ pc \in {"idle", "validating", "resolving"} => addr = NULL

Inv == TypeOK /\ Stages /\ TimePerHop /\ ConnectedChecked /\ BodyBounded /\ TimeBounded

\* Every fetch ends, also when a server never answers, sends one byte at a
\* time, or redirects in a circle.
FetchEnds == pc # "idle" ~> pc = "idle"
=============================================================================

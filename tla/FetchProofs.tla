---------------------------- MODULE FetchProofs -----------------------------
(***************************************************************************)
(* Fetch for any addresses, URLs, answers of the resolver and limits: the  *)
(* invariant Inv is inductive.                                             *)
(***************************************************************************)
EXTENDS Fetch, TLAPS

USE LimitsAssumption, HostsAssumption, UrlsAssumption

\* The time of the requests that are allowed grows with their number.
LEMMA Stretch ==
    ASSUME NEW h \in 0 .. MaxRedirects
    PROVE  /\ h * Timeout \in Nat
           /\ (h + 1) * Timeout = h * Timeout + Timeout
           /\ h * Timeout + Timeout <= (MaxRedirects + 1) * Timeout
<1>1. h * Timeout \in Nat /\ (h + 1) * Timeout = h * Timeout + Timeout
  BY SMT
<1>2. PICK d \in Nat : MaxRedirects = h + d
  <2> WITNESS MaxRedirects - h \in Nat
  <2> QED BY SMT
<1>3. (MaxRedirects + 1) * Timeout = h * Timeout + Timeout + d * Timeout /\ d * Timeout \in Nat
  BY <1>2, SMT
<1> QED BY <1>1, <1>3, SMT

\* What a fetch leaves behind, however it ended.
LEMMA Ended ==
    ASSUME NEW r \in Results \cup {NULL}, End(r)
    PROVE  Inv'
<1>1. (MaxRedirects + 1) * Timeout \in Nat BY SMT
<1> QED BY <1>1, SMT DEF End, Inv, TypeOK, Stages, TimePerHop, ConnectedChecked,
                    BodyBounded, TimeBounded, Requesting, Results

\* The first candidate that is allowed is an address, and allowed; for a
\* literal it is the literal.
LEMMA AllowedAddr ==
    ASSUME NEW h, NEW answer \in Candidates(h), NEW a \in FirstAllowed(answer)
    PROVE  a \in Addrs /\ ~IsBlocked(a) /\ (h \in Addrs => a = h)
<1>1. PICK i \in DOMAIN answer : a = answer[i] /\ ~IsBlocked(answer[i])
  BY DEF FirstAllowed
<1>2. CASE h \in Addrs
  <2>1. answer = <<h>> BY <1>2 DEF Candidates
  <2> QED BY <1>1, <1>2, <2>1
<1>3. CASE h \notin Addrs
  <2>1. answer \in Seq(Addrs) BY <1>3 DEF Candidates
  <2> QED BY <1>1, <1>3, <2>1
<1> QED BY <1>2, <1>3

\* Whatever client is at hand, it connects to the address that was checked.
LEMMA PinnedConnect ==
    ASSUME Inv, pc = "connecting", NEW a \in ConnectAddrs(ClientFor, url.host)
    PROVE  a = addr /\ a \in Addrs /\ ~IsBlocked(a) /\ ClientFor \in Client
<1>1. /\ url \in Url /\ addr \in Addrs /\ ~IsBlocked(addr)
      /\ url.host \in Addrs => addr = url.host
  BY DEF Inv, TypeOK, Stages
<1>2. ClientFor = [host |-> url.host, addr |-> addr]
  BY DEF ClientFor
<1>3. ClientFor.host = url.host /\ ClientFor.addr = addr /\ ClientFor \in Client
  BY <1>1, <1>2 DEF Client, Url
<1>4. CASE url.host \in Addrs
  BY <1>1, <1>3, <1>4 DEF ConnectAddrs
<1>5. CASE url.host \notin Addrs
  BY <1>1, <1>3, <1>5 DEF ConnectAddrs
<1> QED BY <1>4, <1>5

\* Inv of the first state.
LEMMA InitInv == Init => Inv
<1>1. (MaxRedirects + 1) * Timeout \in Nat BY SMT
<1> QED BY <1>1, SMT DEF Init, Inv, TypeOK, Stages, TimePerHop, ConnectedChecked,
                    BodyBounded, TimeBounded, Requesting

\* Inv of every step, one action after the other.
LEMMA NextInv == Inv /\ [Next]_vars => Inv'
<1> SUFFICES ASSUME Inv, [Next]_vars PROVE Inv' OBVIOUS
<1> DEFINE Locals == /\ TypeOK' /\ Stages' /\ ConnectedChecked' /\ BodyBounded'
                     /\ TimePerHop'
<1>t. TypeOK /\ Stages /\ TimePerHop /\ ConnectedChecked /\ BodyBounded BY DEF Inv
\* The bound of the whole fetch follows from the bound of each request.
<1>b. ASSUME TypeOK', TimePerHop' PROVE TimeBounded'
  <2>1. /\ hop' \in 0 .. MaxRedirects /\ used' \in Nat /\ used' <= Timeout
        /\ time' \in Nat /\ time' <= hop' * Timeout + used'
    BY <1>b, SMT DEF TypeOK, TimePerHop
  <2>2. /\ hop' * Timeout \in Nat
        /\ hop' * Timeout + Timeout <= (MaxRedirects + 1) * Timeout
    BY <2>1, Stretch
  <2>3. (MaxRedirects + 1) * Timeout \in Nat BY SMT
  <2> QED BY <2>1, <2>2, <2>3, SMT DEF TimeBounded
<1>q. ASSUME Locals PROVE Inv' BY <1>q, <1>b DEF Inv
<1>1. CASE Start
  <2>1. CASE url' \in Urls /\ pc' = "validating" /\ result' = NULL
             /\ UNCHANGED <<hop, addr, client, conn, size, used, time>>
    BY <1>1, <2>1, <1>q, <1>t, SMT DEF Start, TypeOK, Stages, TimePerHop,
       ConnectedChecked, BodyBounded, Requesting
  <2>2. CASE End("ssrf") BY <2>2, Ended DEF Results
  <2> QED BY <1>1, <2>1, <2>2 DEF Start
<1>2. CASE Validate
  <2>1. CASE ValidUrl(url)
    BY <1>2, <2>1, <1>q, <1>t, SMT DEF Validate, TypeOK, Stages, TimePerHop,
       ConnectedChecked, BodyBounded, Requesting
  <2>2. CASE ~ValidUrl(url)
    BY <1>2, <2>2, Ended DEF Validate, Results
  <2> QED BY <2>1, <2>2
<1>3. CASE Resolve
  <2>1. ASSUME NEW a \in Addrs, ~IsBlocked(a), addr' = a, pc' = "connecting",
               url.host \in Addrs => a = url.host,
               UNCHANGED <<url, hop, client, conn, size, used, time, result>>
        PROVE  Inv'
    BY <1>3, <2>1, <1>q, <1>t, SMT DEF Resolve, TypeOK, Stages, TimePerHop,
       ConnectedChecked, BodyBounded, Requesting, ValidUrl, IsBlocked
  <2>2. PICK answer \in Candidates(url.host) :
           \/ /\ addr' \in FirstAllowed(answer)
              /\ pc' = "connecting"
              /\ UNCHANGED <<url, hop, client, conn, size, used, time, result>>
           \/ End(IF answer = <<>> THEN "dns" ELSE "ssrf")
    BY <1>3 DEF Resolve
  <2>3. CASE addr' \in FirstAllowed(answer) /\ pc' = "connecting"
             /\ UNCHANGED <<url, hop, client, conn, size, used, time, result>>
    <3>1. addr' \in Addrs /\ ~IsBlocked(addr') /\ (url.host \in Addrs => addr' = url.host)
      BY <2>3, AllowedAddr
    <3> QED BY <2>1, <2>3, <3>1
  <2>4. CASE End(IF answer = <<>> THEN "dns" ELSE "ssrf")
    BY <2>4, Ended DEF Results
  <2> QED BY <2>2, <2>3, <2>4
<1>4. CASE Connect
  <2>1. conn' = addr /\ conn' \in Addrs /\ ~IsBlocked(conn') /\ client' \in Client
    BY <1>4, PinnedConnect DEF Connect
  <2>2. /\ url.scheme = "http" /\ ~url.credentials
        /\ url.host \notin {LOCALHOST, NULL}
        /\ url.host \in Addrs => addr = url.host
    BY <1>4, <1>t DEF Connect, Stages, ValidUrl
  <2>3. ConnectedChecked'
    BY <1>4, <2>1, <2>2 DEF Connect, ConnectedChecked, IsBlocked
  <2> QED BY <1>4, <2>1, <2>3, <1>q, <1>t, SMT DEF Connect, TypeOK, Stages, TimePerHop,
          BodyBounded, Requesting
<1>5. CASE Redirect
  <2>1. CASE hop < MaxRedirects
    <3>1. PICK u \in Urls : /\ url' = u /\ pc' = "validating" /\ hop' = hop + 1
                            /\ addr' = NULL /\ conn' = NULL /\ used' = 0
                            /\ UNCHANGED <<client, size, time, result>>
      BY <1>5, <2>1 DEF Redirect
    <3>2. /\ hop \in 0 .. MaxRedirects /\ used \in 0 .. Timeout /\ time \in Nat
          /\ time <= hop * Timeout + used
      BY <1>t DEF TypeOK, TimePerHop
    <3>3. hop * Timeout \in Nat /\ (hop + 1) * Timeout = hop * Timeout + Timeout
      BY <3>2, Stretch
    <3>4. time' <= hop' * Timeout + used'
      BY <3>1, <3>2, <3>3, SMT
    <3>5. TimePerHop' BY <3>1, <3>4 DEF TimePerHop
    <3>6. TypeOK' BY <3>1, <2>1, <1>t, SMT DEF TypeOK
    <3> QED BY <3>1, <3>5, <3>6, <1>q, <1>t DEF Stages, ConnectedChecked, BodyBounded,
            Requesting, TypeOK
  <2>2. CASE ~(hop < MaxRedirects)
    BY <1>5, <2>2, Ended DEF Redirect, Results
  <2> QED BY <2>1, <2>2
<1>6. CASE Reject BY <1>6, Ended DEF Reject, Results
<1>7. CASE Accept
  BY <1>7, <1>q, <1>t, SMT DEF Accept, TypeOK, Stages, TimePerHop, ConnectedChecked,
     BodyBounded, Requesting
<1>8. CASE Chunk
  <2>1. PICK n \in 1 .. MaxBytes + 1 :
           IF size + n <= MaxBytes
           THEN /\ size' = size + n
                /\ UNCHANGED <<pc, url, hop, addr, client, conn, used, time, result>>
           ELSE End("too_large")
    BY <1>8 DEF Chunk
  <2>2. CASE size + n <= MaxBytes
    BY <1>8, <2>1, <2>2, <1>q, <1>t, SMT DEF TypeOK, Stages, TimePerHop,
       ConnectedChecked, BodyBounded, Requesting
  <2>3. CASE ~(size + n <= MaxBytes)
    BY <2>1, <2>3, Ended DEF Results
  <2> QED BY <2>2, <2>3
<1>9. CASE Finish BY <1>9, Ended DEF Finish, Results
<1>10. CASE Tick
  <2>1. /\ hop \in 0 .. MaxRedirects /\ used \in 0 .. Timeout /\ time \in Nat
        /\ time <= hop * Timeout + used
    BY <1>t DEF TypeOK, TimePerHop
  <2>2. hop * Timeout \in Nat BY <2>1, Stretch
  <2>3. TimePerHop' BY <1>10, <2>1, <2>2, SMT DEF Tick, TimePerHop, Requesting
  <2> QED BY <1>10, <2>3, <1>q, <1>t, SMT DEF Tick, TypeOK, Stages, ConnectedChecked,
          BodyBounded, Requesting
<1>11. CASE TimedOut BY <1>11, Ended DEF TimedOut, Results
<1>12. CASE Lost BY <1>12, Ended DEF Lost, Results
<1>13. CASE Drop BY <1>13, Ended DEF Drop
<1>14. CASE UNCHANGED vars
  BY <1>14, <1>q, <1>t DEF vars, TypeOK, Stages, TimePerHop, ConnectedChecked,
     BodyBounded, Requesting
<1> QED BY <1>1, <1>2, <1>3, <1>4, <1>5, <1>6, <1>7, <1>8, <1>9, <1>10, <1>11,
        <1>12, <1>13, <1>14 DEF Next

\* Every connection goes to a checked address of its host, for a URL that was
\* checked too, no body exceeds the limit, and a fetch takes at most
\* MaxRedirects + 1 timeouts (fetch_raw).
THEOREM InvHolds == Spec => []Inv
<1>1. Init => Inv BY InitInv
<1>2. Inv /\ [Next]_vars => Inv' BY NextInv
<1> QED BY <1>1, <1>2, PTL DEF Spec

\* Whatever URL was stored and wherever it is redirected, a fetch connects only
\* to an address it has checked for this request (fetch_raw, validate_url).
THEOREM ConnectedCheckedHolds == Spec => []ConnectedChecked
<1>1. Inv => ConnectedChecked BY DEF Inv
<1> QED BY <1>1, InvHolds, PTL

\* The stretch of the timeout by redirects is bounded.
THEOREM TimeBoundedHolds == Spec => []TimeBounded
<1>1. Inv => TimeBounded BY DEF Inv
<1> QED BY <1>1, InvHolds, PTL
=============================================================================

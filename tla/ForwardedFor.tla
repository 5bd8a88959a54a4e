---------------------------- MODULE ForwardedFor ----------------------------
(***************************************************************************)
(* listenerutil/forwarded_for.go: whose request is this?  The handler made *)
(* by WrapForwardedForHandler believes an X-Forwarded-For header of an     *)
(* authorized peer, as far back as the configured number of hops.  An      *)
(* address is its host and port; a header line is the sequence of its      *)
(* comma-separated values.                                                 *)
(***************************************************************************)
EXTENDS Integers, Sequences, SequencesExt

CONSTANTS
  Host,              \* valid IP addresses
  Authorized,        \* those in XForwardedForAuthorizedAddrs
  Port,
  MaxHopSkips, MaxLines, MaxValues    \* bounds

NoPort == "no port"
NotAnAddress == "not an address"

Addr(hosts, ports) == [host : hosts, port : ports]

(* Values that do not parse; the peer's address always has a port.         *)
Bad == [host |-> NotAnAddress, port |-> NoPort]
Value == Addr(Host, Port \cup {NoPort}) \cup {Bad}
Peer == Addr(Host \cup {NotAnAddress}, Port)

ListenerConfig ==
  [RejectNotPresent : BOOLEAN, RejectNotAuthorized : BOOLEAN, HopSkips : 0..MaxHopSkips]

Lines == SeqOf(SeqOf(Value, MaxValues) \ {<< >>}, MaxLines)

VARIABLES
  l,                 \* the listener's configuration
  remote,            \* r.RemoteAddr
  headers,           \* the X-Forwarded-For lines, none if it is not there
  outcome            \* what became of the request

vars == <<l, remote, headers, outcome>>

Pending == [kind |-> "pending"]
Error == [kind |-> "error"]
Nothing == [kind |-> "nothing"]
Trusted(addr) == [kind |-> "trusted", addr |-> addr]

-----------------------------------------------------------------------------
(* A mutant: the hops are counted from the far end.                        *)
ChosenFromFront(acc, hopSkips) == hopSkips + 1

IsAuthorized(host) == host \in Authorized

(* acc[len(acc) - 1 - hopSkips], counted from 1; none if it is below 1.    *)
Chosen(acc, hopSkips) == Len(acc) - hopSkips

(* TrustedFromXForwardedFor: an address, nothing, or an error.  What       *)
(* cannot be used is treated as not present.                               *)
NotPresent(c) == IF c.RejectNotPresent THEN Error ELSE Nothing

TrustedFromXForwardedFor(c, peer, lines) ==
  LET acc == FlattenSeq(lines)
      index == Chosen(acc, c.HopSkips)
  IN  IF lines = << >> \/ peer.host = NotAnAddress THEN NotPresent(c)
      ELSE IF ~ IsAuthorized(peer.host) THEN IF c.RejectNotAuthorized THEN Error ELSE Nothing
      ELSE IF Bad \in ToSet(acc) THEN NotPresent(c)
      ELSE IF index < 1 THEN Error ELSE Trusted(acc[index])

(* The address served always has a port, if need be the peer's.            *)
Rewritten(addr, peer) == IF addr.port = NoPort THEN [addr EXCEPT !.port = peer.port] ELSE addr

-----------------------------------------------------------------------------
Init ==
  /\ l \in ListenerConfig /\ remote \in Peer /\ headers \in Lines
  /\ outcome = Pending

Served(addr, orig) == [kind |-> "served", remoteAddr |-> addr, orig |-> orig]

Handle ==
  LET found == TrustedFromXForwardedFor(l, remote, headers)
  IN  /\ outcome = Pending
      /\ outcome' = CASE found.kind = "error"   -> Error
                      [] found.kind = "nothing" -> Served(remote, << >>)
                      [] found.kind = "trusted" -> Served(Rewritten(found.addr, remote), <<remote>>)
      /\ UNCHANGED <<l, remote, headers>>

Next == Handle

Spec == Init /\ [][Next]_vars

-----------------------------------------------------------------------------
IsRewritten == outcome.kind = "served" /\ outcome.orig # << >>

(* What a client puts before the entries the proxies added never makes its *)
(* request served under another of the header's addresses: that is chosen  *)
(* by the last HopSkips + 1 entries, wherever the lines are broken.  But   *)
(* an entry that is not an address, even at the front, takes the whole     *)
(* header away: the request is rejected or served under the peer's own     *)
(* address, as if the header was not there.                                *)
EarlierEntriesNeverChoose ==
  IsRewritten =>
    LET found(lines) == TrustedFromXForwardedFor(l, remote, lines)
    IN  /\ found(<<FlattenSeq(headers)>>) = found(headers)
        /\ \A v \in Value :
             found(<<<<v>>>> \o headers) = IF v = Bad THEN NotPresent(l) ELSE found(headers)

(* Only an authorized peer makes a difference to the remote address, and   *)
(* one whose chain is too short for HopSkips is never served.  Downstream  *)
(* handlers rely on a remote address with a host and a port (lines 65-68), *)
(* and find the original one unchanged.                                    *)
OnlyAuthorizedPeersRewrite ==
  outcome.kind = "served" =>
    /\ outcome.remoteAddr # remote => remote.host \in Authorized
    /\ outcome.remoteAddr \in Peer /\ outcome.orig \in {<< >>, <<remote>>}
    /\ remote.host \in Authorized /\ headers # << >> /\ Bad \notin ToSet(FlattenSeq(headers))
         => Len(FlattenSeq(headers)) > l.HopSkips

(* RejectNotAuthorized: whoever sends a header and is served is            *)
(* authorized, if the peer's address can be parsed.  RejectNotPresent:     *)
(* whoever is served without a trusted address is a peer that is not       *)
(* authorized, with a header, and RejectNotAuthorized is off.  With both   *)
(* off, only an authorized peer with too short a chain is rejected.        *)
RejectSettings ==
  /\ outcome.kind = "served" /\ l.RejectNotAuthorized =>
       headers = << >> \/ remote.host \in Authorized \cup {NotAnAddress}
  /\ outcome.kind = "served" /\ l.RejectNotPresent =>
       \/ IsRewritten
       \/ headers # << >> /\ remote.host \notin Authorized /\ ~ l.RejectNotAuthorized
  /\ outcome = Error /\ ~ l.RejectNotPresent /\ ~ l.RejectNotAuthorized =>
       remote.host \in Authorized /\ Len(FlattenSeq(headers)) <= l.HopSkips

(* All of them.                                                            *)
LastEntriesDecide == EarlierEntriesNeverChoose /\ OnlyAuthorizedPeersRewrite /\ RejectSettings
=============================================================================

---------------------------- MODULE Certificates ----------------------------
(***************************************************************************)
(* Certificate validity at an instant the program chooses:                 *)
(* packages/time-correction/src/verify.rs and deferred.rs.                 *)
(*                                                                         *)
(* An instant is a Unix second.  The code's Option<(i64, i64)> is the set  *)
(* of instants inside the pair, and None is the empty set: `intersect`     *)
(* returns None exactly when no instant is left, and every caller treats   *)
(* None as "no instant is known".                                          *)
(*                                                                         *)
(* A certificate is [nb, na, readable]: its validity and whether           *)
(* x509-parser can read it.  A chain is what a peer sent: its leaf, all of *)
(* its certificates, and the paths to a trusted root that webpki can build *)
(* out of them.  Names, signatures and roots are what makes a set of       *)
(* certificates a path.                                                    *)
(***************************************************************************)
EXTENDS Integers

CONSTANTS
  Instants,   \* the instants an i64 can hold (a finite slice for TLC)
  Chains      \* the certificate chains a peer can send

(***************************************************************************)
(* The leaf is on every path webpki builds, and a path uses only           *)
(* certificates that were sent.  No certificate predates the Unix epoch.   *)
(***************************************************************************)
ASSUME InstantsAssumption == Instants \subseteq Int

ASSUME ChainsAssumption ==
  \A chain \in Chains :
    /\ chain.leaf \in chain.certs
    /\ \A c \in chain.certs : c.nb \in Nat /\ c.na \in Int
    /\ \A path \in chain.paths : path \subseteq chain.certs /\ chain.leaf \in path

-----------------------------------------------------------------------------

\* The validity window of one certificate.
window_of(c) == {t \in Instants : c.nb <= t /\ t <= c.na}

\* The instants at which every window is open; all of them over no window.
intersect(windows) == {t \in Instants : \A w \in windows : t \in w}

Unreadable(chain) == \E c \in chain.certs : ~c.readable

\* The intersection over everything the peer sent; only pass 1 uses it.
chain_window(chain) ==
  IF Unreadable(chain) THEN {}
  ELSE intersect({window_of(c) : c \in chain.certs})

\* Mutant: every certificate that was sent narrows the window.
SentWindow(chain, seconds) == chain_window(chain)

\* The span of the path that was verified at `seconds`: a certificate not
\* valid at `seconds` was not on that path.
verified_window(chain, seconds) ==
  LET used == {c \in chain.certs : seconds \in window_of(c)}
  IN  IF Unreadable(chain) \/ used = {} THEN {}
      ELSE intersect({window_of(c) : c \in used})

\* Some path to a trusted root is valid at `seconds` (webpki).
verify_at(chain, seconds) ==
  /\ seconds >= 0
  /\ \E path \in chain.paths : \A c \in path : seconds \in window_of(c)

-----------------------------------------------------------------------------
\* Pass 1, during the handshake: the instants tried are the leaf's own
\* notBefore and the first instant of the sent chain's intersection.
PassOneInstants(chain) ==
  LET sent == chain_window(chain)
  IN  {t \in Instants :
         \/ chain.leaf.readable /\ t = chain.leaf.nb
         \/ t \in sent /\ \A u \in sent : t <= u}

PassOne(chain) == \E t \in PassOneInstants(chain) : verify_at(chain, t)

-----------------------------------------------------------------------------
\* Mutant: one valid chain is enough.
accept_any(chains, seconds) == \E chain \in chains : verify_at(chain, seconds)

\* Deferred::accept, pass 2 over every chain gathered for one timestamp: it
\* refuses an empty collection and any chain not valid at `seconds`.
accept(chains, seconds) ==
  chains # {} /\ \A chain \in chains : verify_at(chain, seconds)

\* Mutant: chains of unknown window drop out of the intersection.
KnownWindows(chains, seconds) ==
  intersect({verified_window(chain, seconds) : chain \in chains} \ {{}})

\* The window `accept` hands on: one chain of unknown window makes it unknown.
AcceptedWindow(chains, seconds) ==
  LET windows == {verified_window(chain, seconds) : chain \in chains}
  IN  IF {} \in windows THEN {} ELSE intersect(windows)
=============================================================================

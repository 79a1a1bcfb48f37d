-------------------------- MODULE MCTimeCorrection --------------------------
(***************************************************************************)
(* Instances of TimeCorrection for TLC.                                    *)
(***************************************************************************)
EXTENDS TimeCorrection, TLC

Cert(nb, na) == [nb |-> nb, na |-> na, readable |-> TRUE]
Chain(leaf, path, unused) ==
  [leaf |-> leaf, certs |-> {leaf} \union path \union unused, paths |-> {{leaf} \union path}]

CaCert == Cert(0, 11)

\* What providers send: a plain chain, one with a superseded cross-sign, one
\* with two paths of which the first ends as the second begins, one that has
\* expired, and one with a certificate x509-parser cannot read.
Plain      == Chain(Cert(2, 8), {CaCert}, {})
CrossSign  == Chain(Cert(2, 9), {CaCert}, {Cert(0, 3)})
TwoPaths   ==
  LET leaf == Cert(3, 7)  one == Cert(0, 5)  two == Cert(5, 11)
  IN  [leaf |-> leaf, certs |-> {leaf, one, two}, paths |-> {{leaf, one}, {leaf, two}}]
Expired    == Chain(Cert(0, 4), {CaCert}, {})
Puzzling   == Chain(Cert(2, 8), {CaCert}, {[nb |-> 0, na |-> 11, readable |-> FALSE]})

DohResolver(name, addresses) == [name |-> name, addresses |-> addresses]
Server(name, operator) == [name |-> name, operator |-> operator]
CommandLine(resolvers, servers, count, floor, only, force, dry) ==
  [resolvers |-> resolvers, servers |-> servers, sample |-> count, tolerance |-> 1,
   floor |-> floor, given |-> only # <<>>, only |-> only, force |-> force, dry_run |-> dry]

V4Resolvers == <<DohResolver("r1", <<"v4">>), DohResolver("r2", <<"v4">>)>>
DualResolvers == <<DohResolver("r1", <<"v6", "v4">>), DohResolver("r2", <<"v4", "v6">>)>>
ThreeServers == <<Server("ptb1", "ptb"), Server("ptb2", "ptb"), Server("net", "netnod")>>
TwoServers == <<Server("ptb1", "ptb"), Server("net", "netnod")>>

AllInstants == (-1)..12
ServerNames == {"ptb1", "ptb2", "net"}
PlainOptions(resolvers, servers) == CommandLine(resolvers, servers, 2, 3, <<>>, FALSE, FALSE)

(***************************************************************************)
(* Trust: what a lying operator and odd chains can do to the clock.        *)
(***************************************************************************)
OddChains == {Plain, CrossSign, TwoPaths, Expired, Puzzling}
LyingServers == <<Server("liar1", "lying"), Server("liar2", "lying"), Server("true", "honest")>>
TrustOptions == {PlainOptions(V4Resolvers, LyingServers)}
LiesTold == 2..8

(***************************************************************************)
(* Legs: every retry, fallback and redirect of concurrent pairs, with      *)
(* failures, kills and reboots at any moment.                              *)
(***************************************************************************)
LegOptions == {PlainOptions(DualResolvers, TwoServers)}
LegPresented ==
  [name \in {"r1", "r2"} |-> {CrossSign}] @@ [name \in ServerNames |-> {Plain}]
SomePresented == LegPresented @@ [name \in {"liar1", "liar2", "true"} |-> OddChains]
SomeRedirects ==
  [ptb1 |-> {"none"}, ptb2 |-> {"none"}, net |-> {"v6", "name"},
   liar1 |-> {"none"}, liar2 |-> {"none"}, true |-> {"none"}]
SomeBoot == {0, 9}

(***************************************************************************)
(* Command lines, accepted and refused ones, with repeated names.          *)
(***************************************************************************)
Repeated == <<Server("ptb1", "ptb"), Server("ptb1", "ptb"), Server("net", "netnod")>>
SomeOnly == {<<>>, <<"ptb1", "ptb2">>, <<"ptb2", "net">>, <<"dns">>}
CommandLines ==
  {CommandLine(r, s, n, 3, only, force, ~force) :
     r \in {<<>>, V4Resolvers}, s \in {<<>>, ThreeServers, Repeated},
     n \in {0, 2, 3}, only \in SomeOnly, force \in BOOLEAN}
    \union {[CommandLine(V4Resolvers, ThreeServers, 2, 3, <<>>, FALSE, FALSE) EXCEPT !.given = TRUE]}
AnyOptions == TrustOptions \union LegOptions \union CommandLines
=============================================================================

------------------------------- MODULE ScopeRules -------------------------------
(***************************************************************************)
(* Scope manifests (server/scope.go): parseScopeManifest, the              *)
(* normalization of assets, ruleMatchesAsset and effectiveScopeStatus; the *)
(* snapshot of server/scope_status.go and what its reader accepts.         *)
(*                                                                         *)
(* A host is a string of labels, whether it is a name or a printed address *)
(* ("10.0.0.1" has four); AddressOf has what netip.ParseAddr makes of one, *)
(* a number of AddressBits bits, and nothing for other names.  A path is a *)
(* sequence of characters, because matching cuts it as a string; one that  *)
(* has to be escaped is written " ", and "%20" when it is.                 *)
(***************************************************************************)
EXTENDS Integers, Sequences, SequencesExt, FiniteSets

CONSTANTS AddressBits, AddressOf,
          MostRules, MostValue, MostSnapshot   \* of a manifest; of a value; of a published snapshot

ASSUME AddressAssumption ==
  /\ AddressBits \in Nat
  /\ <<>> \notin DOMAIN AddressOf /\ \A name \in DOMAIN AddressOf : AddressOf[name] \in Nat

Invalid == [kind |-> "invalid"]

\* An asset as written: upper case, the default port and a trailing dot are spellings.
Spelled(kind, name, addr, bits, scheme, port, path, spelling) ==
  [kind |-> kind, name |-> name, addr |-> addr, bits |-> bits, scheme |-> scheme,
   port |-> port, path |-> path, spelling |-> spelling]

WrittenHost(name, spelling)     == Spelled("host", name, 0, 0, "", 0, <<>>, spelling)
WrittenWildcard(name, spelling) == Spelled("wildcard_domain", name, 0, 0, "", 0, <<>>, spelling)
WrittenIP(name, spelling)       == Spelled("ip", name, 0, 0, "", 0, <<>>, spelling)
WrittenCIDR(addr, bits)         == Spelled("cidr", <<>>, addr, bits, "", 0, <<>>, "plain")
WrittenURL(scheme, name, port, path, spelling) ==
  Spelled("url_prefix", name, 0, 0, scheme, port, path, spelling)

DefaultPort(scheme) == IF scheme = "https" THEN 443 ELSE 80

\* Bytes of a value: a label or a character has one, an escaped one three.
Length(a) == Len(a.name) + Len(a.path) + 2 * Cardinality({i \in DOMAIN a.path : a.path[i] = "%20"})

(***************************************************************************)
(* normalizeTypedAsset, normalizeHost, normalizeURLPrefix.                 *)
(***************************************************************************)
BlockSize(bits) == 2 ^ (AddressBits - bits)

ASSUME BlocksAreNumbers == \A bits \in 0..AddressBits : BlockSize(bits) \in Nat \ {0}

WellFormed(a) ==
  /\ a.spelling # "dot"
  /\ CASE a.kind = "ip"   -> a.name \in DOMAIN AddressOf
       [] a.kind = "cidr" -> a.addr % BlockSize(a.bits) = 0
       [] OTHER           -> a.name # <<>>

\* u.String() escapes the path.
Escaped(path) == [i \in DOMAIN path |-> IF path[i] = " " THEN "%20" ELSE path[i]]

Normalize(a) ==
  IF ~WellFormed(a) THEN Invalid
  ELSE [a EXCEPT !.spelling = "plain",
                 !.port = IF a.kind = "url_prefix" /\ @ = DefaultPort(a.scheme) THEN 0 ELSE @,
                 !.path = IF a.kind = "url_prefix" /\ @ = <<>> THEN <<"/">> ELSE Escaped(@)]

(***************************************************************************)
(* parseScopeManifest, as far as its rules go: a value is measured as it   *)
(* is written, before it is normalized.                                    *)
(***************************************************************************)
RuleKey(rule) == <<rule.action, Normalize(rule.asset)>>

ManifestOf(rules) ==
  IF \/ Len(rules) \notin 1..MostRules
     \/ \E i \in DOMAIN rules : Length(rules[i].asset) > MostValue \/ Normalize(rules[i].asset) = Invalid
     \/ \E i, j \in DOMAIN rules : i # j /\ RuleKey(rules[i]) = RuleKey(rules[j])
    THEN Invalid
    ELSE [kind |-> "manifest",
          rules |-> [i \in DOMAIN rules |-> [rules[i] EXCEPT !.asset = Normalize(rules[i].asset)]]]

(***************************************************************************)
(* ruleMatchesAsset.                                                       *)
(***************************************************************************)
HostOf(a) == IF a.kind \in {"host", "ip", "url_prefix"} THEN a.name ELSE <<>>

\* strings.TrimSuffix(path, "/")
Trimmed(path) == IF path # <<>> /\ Last(path) = "/" THEN Front(path) ELSE path

(* Mutant: a path matches every path that begins with it. *)
AnyPathWith(rule, asset) == IsPrefix(Trimmed(rule), Trimmed(asset))

PathMatches(rule, asset) ==
  \/ Trimmed(asset) = Trimmed(rule)
  \/ IsPrefix(Append(Trimmed(rule), "/"), Trimmed(asset))

Matches(rule, asset) ==
  CASE rule.kind \in {"host", "ip"} -> HostOf(asset) = rule.name
    [] rule.kind = "wildcard_domain" -> HostOf(asset) # rule.name /\ IsSuffix(rule.name, HostOf(asset))
    [] rule.kind = "cidr" ->
         /\ HostOf(asset) \in DOMAIN AddressOf
         /\ AddressOf[HostOf(asset)] \div BlockSize(rule.bits) = rule.addr \div BlockSize(rule.bits)
    [] rule.kind = "url_prefix" ->
         /\ asset.kind = "url_prefix" /\ rule.scheme = asset.scheme /\ rule.port = asset.port
         /\ asset.name = rule.name /\ PathMatches(rule.path, asset.path)

(***************************************************************************)
(* effectiveScopeStatus: the rules are gone through for each asset, and an *)
(* exclusion ends everything.                                              *)
(***************************************************************************)
Judge(verdict, rule, asset) ==
  IF verdict = "exclude" \/ ~Matches(rule.asset, asset) THEN verdict ELSE rule.action

Verdict(rules, asset) == FoldLeft(LAMBDA v, rule : Judge(v, rule, asset), "none", rules)

ScopeStatus(manifest, assets) ==
  LET verdicts == IF manifest = Invalid THEN {} ELSE {Verdict(manifest.rules, a) : a \in assets}
  IN  CASE "exclude" \in verdicts   -> "out_of_scope"
        [] verdicts = {"include"}   -> "authorized"
        [] OTHER                    -> "unknown"

(***************************************************************************)
(* ScopeStatus publishes the normalized rules; validScopeStatusSnapshot is *)
(* what RemoteClient accepts, and measures the values as they came.        *)
(***************************************************************************)
SizeOf(rules) == FoldLeft(LAMBDA size, rule : size + Length(rule.asset), 0, rules)

SnapshotOf(manifest) ==
  IF \/ manifest = Invalid
     \/ \A i \in DOMAIN manifest.rules : manifest.rules[i].action = "exclude"
     \/ SizeOf(manifest.rules) > MostSnapshot
    THEN <<>> ELSE manifest.rules

SnapshotValid(rules) ==
  /\ Len(rules) <= MostRules /\ \E i \in DOMAIN rules : rules[i].action = "include"
  /\ \A i \in DOMAIN rules : Length(rules[i].asset) <= MostValue /\ Normalize(rules[i].asset) = rules[i].asset
  /\ \A i, j \in DOMAIN rules : i # j => rules[i] # rules[j]
----------------------------------------------------------------------------
(***************************************************************************)
(* What a rule is meant to cover, by hosts, blocks and path segments.      *)
(***************************************************************************)
Ascending(S) ==
  CHOOSE c \in [1..Cardinality(S) -> S] : \A i, j \in 1..Cardinality(S) : i < j => c[i] < c[j]

\* Where a path is cut into segments.
Cuts(path) == {i \in DOMAIN path : path[i] = "/"} \union {Len(path) + 1}

Pieces(path) ==
  LET c == Ascending(Cuts(path))
  IN  [n \in 1..Cardinality(Cuts(path)) |-> SubSeq(path, (IF n = 1 THEN 0 ELSE c[n - 1]) + 1, c[n] - 1)]

Segments(path) ==
  LET all == Pieces(path)
  IN  IF Len(all) > 1 /\ Last(all) = <<>> THEN Front(all) ELSE all

Covers(rule, asset) ==
  /\ asset.kind \in {"host", "ip", "url_prefix"}
  /\ CASE rule.kind = "cidr" -> /\ asset.name \in DOMAIN AddressOf
                                /\ AddressOf[asset.name] \in rule.addr..(rule.addr + BlockSize(rule.bits) - 1)
       [] rule.kind = "wildcard_domain" -> \E n \in 1..Len(asset.name) - 1 :
                                             SubSeq(asset.name, n + 1, Len(asset.name)) = rule.name
       [] rule.kind = "url_prefix" -> /\ asset.kind = "url_prefix"
                                      /\ [asset EXCEPT !.path = <<>>] = [rule EXCEPT !.path = <<>>]
                                      /\ IsPrefix(Segments(rule.path), Segments(asset.path))
       [] OTHER -> asset.name = rule.name

IntendedStatus(manifest, assets) ==
  LET covering(a, action) ==
        IF manifest = Invalid THEN {}
        ELSE {r \in ToSet(manifest.rules) : r.action = action /\ Covers(r.asset, a)}
  IN  CASE \E a \in assets : covering(a, "exclude") # {} -> "out_of_scope"
        [] /\ assets # {} /\ \A a \in assets : covering(a, "exclude") = {}
           /\ \A a \in assets : covering(a, "include") # {} -> "authorized"
        [] OTHER -> "unknown"
================================================================================

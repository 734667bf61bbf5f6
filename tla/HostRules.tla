------------------------------ MODULE HostRules ------------------------------
(***************************************************************************)
(* The rules of backend/internal/proxy/{security,validate,dialer}.go about *)
(* host names.  A host string is a spelling: the name it denotes, whether  *)
(* some letter is upper case and whether white space surrounds it.  What   *)
(* the regular expressions and net.ParseIP tell apart is the kind of the   *)
(* name.  A host list is the set of its entries: no rule depends on their  *)
(* order or on duplicates.                                                 *)
(***************************************************************************)
CONSTANTS
    Names,   \* the host names of an instance
    Kind     \* Kind[n]: what the rules see in n, one of Kinds

Kinds == {"domain", "localhost", "literal", "numeric", "malformed"}

ASSUME KindAssumption == Kind \in [Names -> Kinds]

Spelling == [name : Names, upper : BOOLEAN, padded : BOOLEAN]

ToLower(h) == [h EXCEPT !.upper = FALSE]

TrimSpace(h) == [h EXCEPT !.padded = FALSE]

IsLocalhost(h) == Kind[h.name] = "localhost" /\ ~h.upper /\ ~h.padded

(* net.ParseIP accepts it. *)
IsLiteral(h) == Kind[h.name] = "literal" /\ ~h.padded

(* Decimal, hexadecimal or octal digits only. *)
IsNumericOrEncodedHost(h) == Kind[h.name] = "numeric" /\ ~h.padded

(* hostnameRe: lower-case labels; addresses in dotted form, digits and *)
(* localhost match it too.                                             *)
MatchesHostnameRe(h) == Kind[h.name] # "malformed" /\ ~h.upper /\ ~h.padded

IsValidPublicHost(h) ==
    LET host == ToLower(TrimSpace(h))
    IN  /\ ~IsLocalhost(host)
        /\ ~IsLiteral(host)
        /\ ~IsNumericOrEncodedHost(host)
        /\ MatchesHostnameRe(host)

(* The comparison ignores case and keeps white space. *)
HostInList(h, list) == \E e \in list : ToLower(e) = ToLower(h)

(* The hosts of the servers a document lists.  `servers' holds the hosts of *)
(* the entries that have one; a padded URL does not parse and is skipped.   *)
ExtractServerHosts(servers) == {ToLower(h) : h \in {s \in servers : ~s.padded}}
==============================================================================

------------------------------- MODULE McpTokens -------------------------------
(***************************************************************************)
(* The registry of MCP access tokens (mcp-tokens.ts): records in memory,   *)
(* loaded once, changed by each operation and then written to a file as a  *)
(* whole. Operations are synchronous, so in the one gateway that owns the  *)
(* file none interleaves with another; what goes wrong is the write, which *)
(* may throw after memory has changed, or be cut off by a kill, and the    *)
(* restart that goes back to the file.                                     *)
(*                                                                         *)
(* The stamps lastUsedAt and lastUsedTool decide nothing and are left out; *)
(* the scopes and the expiry of a record are its terms.                    *)
(***************************************************************************)
EXTENDS Naturals, FiniteSets

CONSTANTS
  Tokens,           \* token ids, drawn at random and never twice
  Wallets,
  Terms,            \* scopes and expiry
  MaxFaults,        \* bound: loads and writes that fail
  MaxKills          \* bound: processes killed in the middle of an operation

ASSUME ConstantsAssumption == MaxFaults \in Nat /\ MaxKills \in Nat

VARIABLES
  loaded,           \* cached is not null
  cache,            \* the records in memory, once loaded
  file,             \* the records the file would load as
  wallet, terms,    \* what each token is for, should it be issued
  issued,           \* ids that have been used
  first,            \* history: the token a chain of rotations began with
  passed,           \* terms whose expiry has passed
  given,            \* history: tokens shown to their owner
  withdrawn,        \* history: tokens whose owner was told they are revoked
  faults, kills

vars == <<loaded, cache, file, wallet, terms, issued, first, passed, given,
          withdrawn, faults, kills>>

\* A registry: the records, and those of them with revokedAt set.
Registries == [known : SUBSET Tokens, revoked : SUBSET Tokens]
Empty == [known |-> {}, revoked |-> {}]
Active(r) == r.known \ r.revoked
ActiveOf(r, w) == {t \in Active(r) : wallet[t] = w}

Owners == <<wallet, terms>>
Told == <<given, withdrawn>>

Init ==
  /\ loaded = FALSE /\ cache = Empty /\ file = Empty
  /\ wallet \in [Tokens -> Wallets] /\ terms \in [Tokens -> Terms]
  /\ issued = {} /\ first = [t \in Tokens |-> t] /\ passed = {}
  /\ given = {} /\ withdrawn = {}
  /\ faults = 0 /\ kills = 0

-----------------------------------------------------------------------------
(* Memory and file *)

\* persist() returns.
Written(r) == cache' = r /\ file' = r /\ UNCHANGED <<loaded, faults, kills>>

\* persist() throws. The file is opened for writing first, which empties it:
\* it holds what it held, less than a document, or all of the new one.
Thrown(before, r) ==
  /\ faults < MaxFaults /\ faults' = faults + 1
  /\ cache' = r /\ file' \in {before, Empty, r}
  /\ UNCHANGED <<loaded, kills>>

\* The process is killed while it writes one of the registries rs.
Killed(rs) ==
  /\ kills < MaxKills /\ kills' = kills + 1
  /\ loaded' = FALSE /\ cache' = Empty /\ file' \in {file, Empty} \cup rs
  /\ UNCHANGED faults

\* Before the route answers: nothing is told to the owner.
Untold(before, r) == (Thrown(before, r) \/ Killed({r})) /\ UNCHANGED Told

\* Seeded bug: a new token does not supersede the others.
IssuingBeside(r, t) == [r EXCEPT !.known = @ \cup {t}]

\* Revoking marks a record; issuing a token marks the wallet's other records.
Revoking(r, ts) == [r EXCEPT !.revoked = @ \cup ts]
Issuing(r, t) ==
  [known |-> r.known \cup {t}, revoked |-> r.revoked \cup ActiveOf(r, wallet[t])]

-----------------------------------------------------------------------------
(* Seeded bugs: variants of the actions below that the properties must catch. *)

\* Only the memory is changed when nothing new has to be stored.
RevokeUnsaved(t) ==
  /\ loaded /\ t \in cache.known
  /\ cache' = Revoking(cache, {t})
  /\ withdrawn' = withdrawn \cup {t}
  /\ UNCHANGED <<loaded, file, Owners, issued, first, passed, given, faults, kills>>

\* The process starts without its file.
LoadNothing ==
  /\ ~loaded /\ loaded' = TRUE /\ cache' = Empty /\ UNCHANGED faults
  /\ UNCHANGED <<file, Owners, issued, first, passed, Told, kills>>

\* A file that cannot be read lets every id in.
LoadOpen ==
  /\ ~loaded /\ loaded' = TRUE
  /\ \/ cache' = file /\ UNCHANGED faults
     \/ cache' = [known |-> Tokens, revoked |-> {}] /\ faults < MaxFaults /\ faults' = faults + 1
  /\ UNCHANGED <<file, Owners, issued, first, passed, Told, kills>>

\* A rotated token gets the scopes and the expiry of a new one.
CopiesNothing(t, u) == TRUE

-----------------------------------------------------------------------------
(* The operations *)

\* load(): a file that is missing, cannot be read or does not parse is empty.
Load ==
  /\ ~loaded /\ loaded' = TRUE
  /\ \/ cache' = file /\ UNCHANGED faults
     \/ cache' = Empty /\ faults < MaxFaults /\ faults' = faults + 1
  /\ UNCHANGED <<file, Owners, issued, first, passed, Told, kills>>

\* randomBytes(9) is an id no record has had.
Fresh(t) == t \notin issued

\* createMcpToken: the wallet's active records are revoked, the new one is
\* pushed, and all are written before the token is shown.
Create(t) ==
  /\ loaded /\ Fresh(t)
  /\ issued' = issued \cup {t}
  /\ LET r == Issuing(cache, t)
     IN \/ /\ Written(r) /\ given' = given \cup {t}
           /\ withdrawn' = withdrawn \cup ActiveOf(cache, wallet[t])
        \/ Untold(file, r)
  /\ UNCHANGED <<Owners, first, passed>>

\* revokeMcpToken writes also when the record was revoked before.
Revoke(t) ==
  /\ loaded /\ t \in cache.known
  /\ LET r == Revoking(cache, {t})
     IN \/ Written(r) /\ withdrawn' = withdrawn \cup {t} /\ UNCHANGED given
        \/ Untold(file, r)
  /\ UNCHANGED <<Owners, issued, first, passed>>

\* A rotated token has the wallet, the scopes and the expiry of the old one.
Copies(t, u) == terms[t] = terms[u]

\* rotateMcpToken(u): revokeMcpToken and then createMcpToken, each with its
\* write. The record may have been revoked, or have expired, long before.
Rotate(u, t) ==
  /\ loaded /\ u \in cache.known
  /\ Fresh(t) /\ wallet[t] = wallet[u] /\ Copies(t, u)
  /\ LET r == Revoking(cache, {u})
         s == Issuing(r, t)
     IN \/ /\ Untold(file, r)
           /\ UNCHANGED <<issued, first>>
        \/ /\ issued' = issued \cup {t} /\ first' = [first EXCEPT ![t] = first[u]]
           /\ \/ /\ Written(s) /\ given' = given \cup {t}
                 /\ withdrawn' = withdrawn \cup {u} \cup ActiveOf(cache, wallet[t])
              \/ (Thrown(r, s) \/ Killed({r, s})) /\ UNCHANGED Told
  /\ UNCHANGED <<Owners, passed>>

\* verifyMcpToken accepts a token and stamps its record, which writes the file.
Accepted(t) == t \in Active(cache) /\ terms[t] \notin passed
Verify(t) ==
  /\ loaded /\ Accepted(t)
  /\ \/ Written(cache) /\ UNCHANGED Told
     \/ Untold(file, cache)
  /\ UNCHANGED <<Owners, issued, first, passed>>

-----------------------------------------------------------------------------
(* The environment *)

Expire(m) ==
  /\ m \notin passed /\ passed' = passed \cup {m}
  /\ UNCHANGED <<loaded, cache, file, Owners, issued, first, Told, faults, kills>>

\* The gateway is restarted between two operations.
Restart ==
  /\ loaded /\ loaded' = FALSE /\ cache' = Empty
  /\ UNCHANGED <<file, Owners, issued, first, passed, Told, faults, kills>>

Next ==
  \/ Load \/ Restart
  \/ \E t \in Tokens : Create(t) \/ Revoke(t) \/ Verify(t)
  \/ \E t, u \in Tokens : Rotate(u, t)
  \/ \E m \in Terms : Expire(m)

Spec == Init /\ [][Next]_vars

-----------------------------------------------------------------------------
(* What the registry promises *)

TypeOK ==
  /\ loaded \in BOOLEAN /\ cache \in Registries /\ file \in Registries
  /\ wallet \in [Tokens -> Wallets] /\ terms \in [Tokens -> Terms]
  /\ issued \subseteq Tokens /\ cache.known \cup file.known \subseteq issued
  /\ first \in [Tokens -> Tokens] /\ passed \subseteq Terms
  /\ given \subseteq issued /\ withdrawn \subseteq issued
  /\ faults \in 0 .. MaxFaults /\ kills \in 0 .. MaxKills

\* "each wallet has one active MCP token at a time" (imagination-graph-mcp.md):
\* in memory, and in the file a restart would go back to, whatever failed.
OneActive ==
  \A r \in {cache, file} : \A t, u \in Active(r) : wallet[t] = wallet[u] => t = u

\* A token whose owner was told that it is revoked is never accepted again:
\* no failing write and no restart brings it back.
RevocationHolds == withdrawn \cap (Active(cache) \cup Active(file)) = {}

\* The memory that counts: the cache, or the file it will be loaded from.
Current == IF loaded THEN cache ELSE file

\* A token its owner was shown and not told to be revoked is still active,
\* also after a restart, as long as no load or write failed or was cut off.
NoTokenLost ==
  faults = 0 /\ kills = 0 => given \ withdrawn \subseteq Active(Current)

\* Rotation never extends a token's life: once the first token of a chain has
\* expired, no later one is accepted.
RotationKeepsTerms ==
  \A t \in Tokens : loaded /\ Accepted(t) => terms[first[t]] \notin passed
=============================================================================

--------------------------- MODULE AccessSessions ---------------------------
(***************************************************************************)
(* The browser sessions of the server: a map in memory that every change   *)
(* writes back to the table browser_sessions, one transaction per role,    *)
(* bound to the access key of the role; and the JSON file an older release *)
(* kept (server.mjs, security/browser-session-store.js).                   *)
(*                                                                         *)
(* Sessions are numbered in the order they are created; 0 is the one in    *)
(* the JSON file.  A handler runs to its end; a write may fail at any      *)
(* role, and the server may die between any two steps of its start.  The   *)
(* two keys never have the same value, and a rotated operator key is new.  *)
(***************************************************************************)
EXTENDS Naturals, Sequences, FiniteSets, Functions, Selections

CONSTANTS
    MaxSessions,   \* MAX_LOCAL_SESSIONS
    MaxKeys,       \* bound: values of each role's access key
    MaxLogins      \* bound: sessions created

ASSUME SessionsAssumption ==
    /\ MaxSessions \in Nat \ {0}
    /\ MaxKeys \in Nat \ {0}
    /\ MaxLogins \in Nat

Roles == <<"operator", "viewer">>   \* the order activeSessionBindings has
Ids == 0..MaxLogins
NoKey == 0
AccessKeys == 1..MaxKeys
NoLegacyFile == [key |-> NoKey, held |-> FALSE]

VARIABLES
    serving,    \* "down", or the step of the start, or "up"
    accessKey,  \* role -> the key configured; a viewer key is optional
    logins,     \* sessions created
    memory,     \* localSessions, in insertion order: records [id, role]
    rows,       \* browser_sessions: records [id, role, key]
    legacyFile, \* the JSON file
    aged,       \* sessions past SESSION_TTL_MS
    loggedOut   \* sessions revoked with an answer, or whose key was rotated

sessionVars == <<serving, accessKey, logins, memory, rows, legacyFile, aged, loggedOut>>

RoleSet == {"operator", "viewer"}
Entries == [id : Ids, role : RoleSet]

SessionsTypeOK ==
    /\ serving \in {"down", "imported", "up"}
    /\ accessKey \in [RoleSet -> AccessKeys \cup {NoKey}] /\ accessKey["operator"] # NoKey
    /\ logins \in 0..MaxLogins
    /\ Len(memory) <= MaxSessions /\ \A i \in DOMAIN memory : memory[i] \in Entries
    /\ rows \subseteq [id : Ids, role : RoleSet, key : AccessKeys]
    /\ legacyFile \in [key : AccessKeys, held : {TRUE}] \cup {NoLegacyFile}
    /\ aged \subseteq Ids /\ loggedOut \subseteq Ids

SessionsInit ==
    /\ serving = "down"
    /\ accessKey = [operator |-> 1, viewer |-> 1]
    /\ logins = 0
    /\ memory = << >>
    /\ rows = {}
    /\ legacyFile \in {NoLegacyFile, [key |-> 1, held |-> TRUE]}
    /\ aged = {}
    /\ loggedOut = {}

SessionsIn(s) == {s[i].id : i \in DOMAIN s}
Dropping(s, ids) == AtPlaces(s, {i \in DOMAIN s : s[i].id \notin ids})
pruneLocalSessions(s) == Dropping(s, aged)
trimOldestEntry(s, maximum) ==
    IF Len(s) < maximum THEN s ELSE SubSeq(s, Len(s) - maximum + 2, Len(s))

RowsOf(s, role) ==
    {[id |-> e.id, role |-> role, key |-> accessKey[role]] : e \in {x \in Range(s) : x.role = role}}

\* replaceAll for the first `done` of the roles; a role without a key has no binding.
replaceAll(s, done) ==
    LET written == {Roles[i] : i \in 1..done} \cap {r \in RoleSet : accessKey[r] # NoKey} IN
    {w \in rows : w.role \notin written} \cup UNION {RowsOf(s, r) : r \in written}

------------------------------------------------------------------------------
(* The start: the file is imported and removed, then the sessions of the   *)
(* present keys are loaded, the operators first.                           *)
ImportLegacyJson ==
    /\ serving = "down"
    /\ rows' = IF legacyFile.held /\ legacyFile.key = accessKey["operator"]
                  /\ \A w \in rows : w.id # 0
               THEN rows \cup {[id |-> 0, role |-> "operator", key |-> legacyFile.key]}
               ELSE rows
    /\ serving' = "imported"
    /\ UNCHANGED <<accessKey, logins, memory, legacyFile, aged, loggedOut>>

BadRetireLegacyFile == UNCHANGED legacyFile
retireLegacyFile == legacyFile' = IF legacyFile.key = accessKey["operator"] THEN NoLegacyFile ELSE legacyFile

BadLoadActive == {w \in rows : accessKey[w.role] # NoKey /\ w.id \notin aged}
loadActive == {w \in rows : w.key = accessKey[w.role] /\ w.id \notin aged}

InOrder(role) ==
    LET mine == {w \in loadActive : w.role = role} IN
    [i \in 1..Cardinality(mine) |->
        LET w == CHOOSE w \in mine : Cardinality({v \in mine : v.id < w.id}) = i - 1
        IN [id |-> w.id, role |-> role]]

loadPersistedSessions ==
    /\ serving = "imported"
    /\ retireLegacyFile
    /\ memory' = trimOldestEntry(InOrder("operator") \o InOrder("viewer"), MaxSessions + 1)
    /\ rows' = {w \in loadActive : w.id \in SessionsIn(memory')}
    /\ serving' = "up"
    /\ loggedOut' = loggedOut \cup {w.id : w \in {w \in rows : w.key # accessKey[w.role]}}
    /\ UNCHANGED <<accessKey, logins, aged>>

\* The server dies, and may be started with other keys.
StopAndRekey(keys) ==
    /\ keys["operator"] >= accessKey["operator"]
    /\ serving' = "down"
    /\ memory' = << >>
    /\ accessKey' = keys
    /\ UNCHANGED <<logins, rows, legacyFile, aged, loggedOut>>

------------------------------------------------------------------------------
(* The running server.  A failed write leaves the roles before it written. *)
SessionAges(id) ==
    /\ id \in SessionsIn(memory) \cup {w.id : w \in rows}
    /\ aged' = aged \cup {id}
    /\ UNCHANGED <<serving, accessKey, logins, memory, rows, legacyFile, loggedOut>>

createLocalSession(role) ==
    /\ serving = "up"
    /\ accessKey[role] # NoKey
    /\ logins < MaxLogins
    /\ logins' = logins + 1
    /\ LET kept == trimOldestEntry(pruneLocalSessions(memory), MaxSessions)
           added == Append(kept, [id |-> logins + 1, role |-> role]) IN
       \/ memory' = added /\ rows' = replaceAll(added, 2)
       \/ memory' = kept /\ \E done \in 0..1 : rows' = replaceAll(added, done)
    /\ UNCHANGED <<serving, accessKey, legacyFile, aged, loggedOut>>

revokeLocalSession(id) ==
    /\ serving = "up"
    /\ id \in SessionsIn(memory) \ aged
    /\ memory' = Dropping(pruneLocalSessions(memory), {id})
    /\ \/ rows' = replaceAll(memory', 2) /\ loggedOut' = loggedOut \cup {id}
       \/ (\E done \in 0..1 : rows' = replaceAll(memory', done)) /\ UNCHANGED loggedOut
    /\ UNCHANGED <<serving, accessKey, logins, legacyFile, aged>>

\* Any request prunes first; what it finds is a session or it is not.
sessionForRequest ==
    /\ serving = "up"
    /\ memory' = pruneLocalSessions(memory)
    /\ UNCHANGED <<serving, accessKey, logins, rows, legacyFile, aged, loggedOut>>

------------------------------------------------------------------------------
SessionsNext ==
    \/ ImportLegacyJson \/ loadPersistedSessions
    \/ \E keys \in [RoleSet -> AccessKeys \cup {NoKey}] : StopAndRekey(keys)
    \/ \E id \in Ids : SessionAges(id) \/ revokeLocalSession(id)
    \/ \E role \in RoleSet : createLocalSession(role)
    \/ sessionForRequest

SessionsSpec == SessionsInit /\ [][SessionsNext]_sessionVars

------------------------------------------------------------------------------
\* A session revoked with an answer, and every session of a key that was rotated, is
\* never accepted again: not after a restart, a failed write, a start that died between
\* the import of the old file and its removal (sessionStoreBinding, revokeLocalSession).
LoggedOutStaysOut == SessionsIn(memory) \cap loggedOut = {}

=============================================================================

---------------------------- MODULE PolicyEngine ----------------------------
(***************************************************************************)
(* Capability tokens (core/policy_engine.py).  A token is a role and a     *)
(* time of expiry; what it allows is the scope of the role.                *)
(*                                                                         *)
(* Paths, commands and sizes are members of the classes the scopes tell    *)
(* apart.  A call may leave out the argument a check looks at (None), and  *)
(* then the check is skipped, as in the code.                              *)
(***************************************************************************)
EXTENDS Naturals

CONSTANTS
  NoExpiry,  \* expires_at None
  None       \* an argument that is not in the call

ReadOnly == {"read", "search"}

(* ROLE_SCOPES: permissions, denied, path_restrictions, command_allowlist, *)
(* and whether max_write_bytes is a limit at all (0 is none).              *)
RoleScopes ==
  [ planner |-> [perms |-> ReadOnly, denied |-> {"write", "patch", "shell"},
                 paths |-> {"*"}, commands |-> {}, limited |-> FALSE],
    coder   |-> [perms |-> ReadOnly \cup {"write", "patch", "shell"}, denied |-> {"network"},
                 paths |-> {"code", "tests", "docs"}, commands |-> {"pytest", "git"},
                 limited |-> TRUE],
    critic  |-> [perms |-> ReadOnly, denied |-> {"write", "patch", "shell", "network"},
                 paths |-> {"*"}, commands |-> {}, limited |-> FALSE],
    security_auditor |->
                [perms |-> ReadOnly \cup {"suggest_only"},
                 denied |-> {"write", "patch", "shell", "network"},
                 paths |-> {"*"}, commands |-> {}, limited |-> FALSE],
    tester  |-> [perms |-> ReadOnly \cup {"write", "shell"}, denied |-> {"patch", "network"},
                 paths |-> {"tests"}, commands |-> {"pytest"}, limited |-> TRUE],
    doc_writer |->
                [perms |-> ReadOnly \cup {"write"}, denied |-> {"patch", "shell", "network"},
                 paths |-> {"docs"}, commands |-> {}, limited |-> TRUE] ]

(* A role nobody defined gets the critic's scope. *)
ScopeOf(role) == IF role \in DOMAIN RoleScopes THEN RoleScopes[role] ELSE RoleScopes["critic"]

(* CapabilityToken. *)
Token(role, expires) == [role |-> role, expires |-> expires]

Expired(token, time) == token.expires # NoExpiry /\ time > token.expires

HasPermission(token, perm, time) ==
  /\ ~Expired(token, time)
  /\ perm \notin ScopeOf(token.role).denied
  /\ perm \in ScopeOf(token.role).perms

(* A path outside the workspace is in the class "outside". *)
CanAccessPath(token, path) ==
  "*" \in ScopeOf(token.role).paths \/ path \in ScopeOf(token.role).paths

CanRun(token, command) == command \in ScopeOf(token.role).commands

(* The permission an action needs; search and search_files, read, list_dir *)
(* and add_note are one action each here.                                  *)
Needed == [read |-> "read", search |-> "search", write |-> "write", patch |-> "patch",
           run |-> "shell"]

(* Slip: a role that may only suggest is asked for permissions alone, and  *)
(* the permission of the action is not looked up.                          *)
VerdictUnchecked(token, action, path, command, big, time) ==
  IF Expired(token, time) THEN "expired" ELSE "allowed"

(* verify_action: the first check that fails gives the reason. *)
Verdict(token, action, path, command, big, time) ==
  LET scope == ScopeOf(token.role)
  IN  IF Expired(token, time) THEN "expired"
      ELSE IF action \notin DOMAIN Needed THEN "unknown"
      ELSE IF "suggest_only" \in scope.perms /\ action \in {"write", "patch", "run"} THEN "suggest_only"
      ELSE IF ~HasPermission(token, Needed[action], time) THEN "permission"
      ELSE IF /\ action \in {"read", "write", "patch"} /\ path # None
              /\ ~CanAccessPath(token, path) THEN "path"
      ELSE IF action = "run" /\ command # None /\ ~CanRun(token, command) THEN "command"
      ELSE IF action = "write" /\ big /\ scope.limited THEN "size"
      ELSE "allowed"
=============================================================================

---------------------------- MODULE PreToolGate -----------------------------
(***************************************************************************)
(* The kernel's answer to one tool request (kernel/pretooluse-gate with    *)
(* kernel/runtime-boundary), and how the lifecycle hook of the Claude Code *)
(* adapter joins it with the verdict of the session.                       *)
(*                                                                         *)
(* A request is the event of SessionControl: an edit (or a read with a     *)
(* path, which is checked and recorded like one), a shell command, or a    *)
(* tool without either.  All but a command say whether their content       *)
(* carries a secret.                                                       *)
(***************************************************************************)
CONSTANTS Unwritable,  \* files of the deny list, outside the working directory
                       \* or outside the allowed paths
          Refused      \* commands that carry a secret or match DESTRUCTIVE_RE

OtherTools == {"read", "web_fetch", "deploy", "unknown"}

(* carriesRawSecret, of a command as far as Refused does not tell.         *)
carriesRawSecret(e) == e.kind # "bash" /\ e.secret

classify(e) ==
    IF e.kind = "unknown" THEN "unknown"
    ELSE IF carriesRawSecret(e) THEN "security_sensitive"
    ELSE CASE e.kind = "deploy" -> "destructive"
           [] e.kind = "bash" -> IF e.command \in Refused THEN "destructive" ELSE "benign"
           [] e.kind = "web_fetch" -> "external"
           [] OTHER -> "benign"

checkWrite(file) == file \notin Unwritable

(* A secret is refused before all else; an unknown tool is never let       *)
(* through unasked.                                                        *)
preToolUse(e) ==
    IF carriesRawSecret(e) \/ (e.kind = "edit" /\ ~checkWrite(e.file)) THEN "block"
    ELSE CASE classify(e) = "destructive" -> "block"
           [] classify(e) \in {"external", "unknown"} -> "needs_approval"
           [] classify(e) = "benign" -> "allow"

(* The session can only make the gate stricter.                            *)
hookVerdict(e, session) ==
    IF preToolUse(e) = "allow" /\ session = "needs_approval" THEN session ELSE preToolUse(e)
=============================================================================

--------------------------- MODULE TranscriptRecords ---------------------------
(***************************************************************************)
(* What munshi reads in one record of a transcript: `classify` of the crate *)
(* munshi-transcript (classify.rs), for the three harnesses.                *)
(*                                                                          *)
(* A class is "content", with the kinds of its events, each at its place in *)
(* the record, "empty", "ignored" (known, set aside) or "unknown".  A text   *)
(* is "missing" (absent or not a string), "blank" or "text".  The text of    *)
(* the events and the fields of a tool event are abstracted to being there   *)
(* or not.                                                                   *)
(***************************************************************************)
EXTENDS Naturals, Sequences

Content(events) == [class |-> "content", events |-> events]
Empty   == [class |-> "empty",   events |-> <<>>]
Ignored == [class |-> "ignored", events |-> <<>>]
Unknown == [class |-> "unknown", events |-> <<>>]

Texts == {"missing", "blank", "text"}

-----------------------------------------------------------------------------
(* Copilot CLI.                                                             *)

CopilotMessages == [type : {"user.message", "assistant.message"}, data : Texts]
\* data: "blank" has the identifiers required but nothing to say, "missing" has not.
CopilotTools ==
  [type : {"tool.execution_start", "tool.user_requested", "tool.execution_complete",
           "external_tool.requested", "external_tool.completed", "skill.invoked"},
   data : Texts]
CopilotOthers == [type : {"bookkeeping", "unlisted", "untyped"}, data : {"missing"}]
CopilotRecords == CopilotMessages \cup CopilotTools \cup CopilotOthers

\* A skill must be named, and a completion must name its request.
MustName == {"skill.invoked", "external_tool.completed"}
ValidTool(r) == r.data # "missing" /\ (r.type \in MustName => r.data = "text")

ClassifyCopilot(r) ==
  CASE r \in CopilotMessages /\ r.data = "missing" -> Ignored
    [] r \in CopilotMessages /\ r.data = "blank" -> Empty
    [] r \in CopilotMessages /\ r.data = "text" ->
         Content(<<IF r.type = "user.message" THEN "user" ELSE "assistant">>)
    [] r \in CopilotTools -> IF ValidTool(r) THEN Content(<<"tool">>) ELSE Ignored
    [] r.type = "bookkeeping" -> Ignored
    [] OTHER -> Unknown

-----------------------------------------------------------------------------
(* Claude Code: a record has a type, and a message whose form is "missing",   *)
(* "string", with its text, or "blocks", a sequence of Blocks.                *)

\* nameless: a tool_use without a name; bare: a tool_result that says nothing.
Blocks == {"untyped", "other", "text", "blank", "tool_use", "nameless", "tool_result", "bare"}

MessageEvent(type) == type

\* Mutant: whatever a user record carries is said by the operator.
AllIsSaid(type, block) ==
  CASE block = "text" -> MessageEvent(type)
    [] block = "tool_use" /\ type = "assistant" -> "tool"
    [] block = "tool_result" /\ type = "user" -> "user"
    [] OTHER -> "none"

\* A tool is used by the assistant; its result comes back in a user record.
BlockEvent(type, block) ==
  CASE block = "text" -> MessageEvent(type)
    [] block = "tool_use" /\ type = "assistant" -> "tool"
    [] block = "tool_result" /\ type = "user" -> "tool"
    [] OTHER -> "none"

ClassifyBlocks(type, blocks) ==
  LET carrying == {i \in DOMAIN blocks : BlockEvent(type, blocks[i]) # "none"}
  IN  CASE carrying # {} -> Content([i \in carrying |-> BlockEvent(type, blocks[i])])
        [] carrying = {} /\ \E i \in DOMAIN blocks : blocks[i] # "untyped" -> Empty
        [] OTHER -> Ignored

ClassifyClaude(r) ==
  CASE r.type \in {"user", "assistant"} /\ r.form = "blocks" -> ClassifyBlocks(r.type, r.blocks)
    [] r.type \in {"user", "assistant"} /\ r.form = "string" /\ r.text = "text" ->
         Content(<<MessageEvent(r.type)>>)
    [] r.type \in {"user", "assistant"} /\ r.form = "string" /\ r.text = "blank" -> Empty
    [] r.type \in {"user", "assistant"} /\ r.form = "string" /\ r.text = "missing" -> Ignored
    [] r.type \in {"user", "assistant"} /\ r.form = "missing" -> Ignored
    [] r.type = "bookkeeping" -> Ignored
    [] OTHER -> Unknown

-----------------------------------------------------------------------------
(* Codex CLI: a record of metadata, or a response item that is a message     *)
(* with a role and the text of its blocks, or a tool item, its text a call id.*)

ClassifyMessage(role, text) ==
  CASE role = "missing" -> Ignored
    [] role # "missing" /\ text # "text" -> Empty
    [] role \in {"user", "assistant"} /\ text = "text" -> Content(<<role>>)
    [] OTHER -> Ignored

ClassifyCodex(r) ==
  CASE r.type = "metadata" -> Ignored
    [] r.type \in {"unlisted", "untyped"} -> Unknown
    [] r.type = "response_item" /\ r.item = "message" -> ClassifyMessage(r.role, r.text)
    [] r.type = "response_item" /\ r.item \in {"call", "output", "shell"} ->
         IF r.text = "text" THEN Content(<<"tool">>) ELSE Ignored
    [] r.type = "response_item" /\ r.item \in {"missing", "set-aside"} -> Ignored
    [] OTHER -> Unknown

-----------------------------------------------------------------------------

Sources == {"copilot", "claude", "codex"}

Classify(source, r) ==
  CASE source = "copilot" -> ClassifyCopilot(r)
    [] source = "claude" -> ClassifyClaude(r)
    [] source = "codex" -> ClassifyCodex(r)
=============================================================================

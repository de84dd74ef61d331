----------------------------- MODULE ToolTable -----------------------------
(***************************************************************************)
(* The tools of the bridge: how the daemon registers them (mcp-server/src/ *)
(* mcp-session.ts), what the catalog says of their effects (protocol/src/  *)
(* tool-catalog.ts) and what the handler of the window does around the     *)
(* manager that carries them out (vscode-extension/src/*-handlers.ts).     *)
(* Names are without their prefix vscode_.                                 *)
(***************************************************************************)

\* Answered by the daemon itself.
LocalTools == {"get_bridge_capabilities", "get_usage_insights", "list_instances"}

\* Routed with the default timeout and the signal of the scope.
ReadTools ==
    {"get_editor_context", "get_workspace_setup", "read_document", "get_diagnostics",
     "get_document_symbols", "get_definitions", "get_references", "get_hover"}

PreparingTools == {"prepare_text_edits", "prepare_rename", "list_code_actions"}

TerminalTools == {"list_terminals", "list_terminal_executions", "read_terminal_output"}

\* Routed with the interactive timeout and the signal of the call.
EditingTools == {"apply_change_set", "save_document", "format_document", "apply_code_action"}

ConfigurationTools ==
    {"get_workspace_configuration", "update_workspace_configuration", "prepare_resource_changes"}

TaskTools ==
    {"list_tasks", "prepare_task", "persist_task", "run_task", "list_task_executions",
     "terminate_task"}

DebugTools ==
    {"list_debug_configurations", "prepare_debug_configuration", "persist_debug_configuration",
     "start_debug_session", "list_debug_sessions", "get_debug_state", "control_debug_session",
     "list_breakpoints", "update_breakpoints", "evaluate_debug_expression", "set_debug_variable",
     "list_debug_output", "read_debug_output"}

ExtensionTools ==
    {"list_extensions", "get_extension_details", "get_extension_configuration_schema",
     "get_profile_context", "list_output_sources", "read_visible_output",
     "list_diagnostic_events", "search_extensions", "prepare_extension_install",
     "apply_extension_install", "get_extension_configuration", "update_extension_configuration",
     "list_extension_integrations", "get_extension_integration_state"}

Registered ==
    LocalTools \cup ReadTools \cup PreparingTools \cup TerminalTools \cup EditingTools
        \cup ConfigurationTools \cup TaskTools \cup DebugTools \cup ExtensionTools

\* Routed tools, by what the call carries.
Interactive == EditingTools \cup ConfigurationTools \cup TaskTools \cup DebugTools \cup ExtensionTools
Routed == Registered \ LocalTools

\* The catalog: what a tool changes.
Changing ==
    [workspace |-> {"update_workspace_configuration", "apply_change_set", "save_document",
                    "format_document", "apply_code_action", "persist_task",
                    "persist_debug_configuration"},
     process   |-> {"apply_extension_install", "update_extension_configuration", "run_task",
                    "terminate_task", "get_extension_integration_state"},
     debuggee  |-> {"start_debug_session", "control_debug_session", "update_breakpoints",
                    "evaluate_debug_expression", "set_debug_variable"}]

\* What the handler does: the work is an activity of its own, the manager records it,
\* or the signal is checked and nothing is recorded.
\* Mutant: one handler calls its manager without an activity.
TrackedButOne ==
    {"apply_change_set", "save_document", "format_document", "apply_code_action",
     "update_workspace_configuration", "control_debug_session", "update_breakpoints",
     "evaluate_debug_expression", "set_debug_variable", "apply_extension_install",
     "update_extension_configuration"}
Tracked ==
    {"apply_change_set", "save_document", "format_document", "apply_code_action",
     "update_workspace_configuration", "terminate_task", "control_debug_session",
     "update_breakpoints", "evaluate_debug_expression", "set_debug_variable",
     "apply_extension_install", "update_extension_configuration"}
RecordedByManager ==
    {"prepare_task", "run_task", "persist_task", "prepare_debug_configuration",
     "start_debug_session", "persist_debug_configuration"}
CheckedOnly == {"prepare_extension_install"}

\* assertRequestActive is called before the manager.
Checked == Tracked \cup RecordedByManager \cup CheckedOnly

\* A tool whose catalog entry tells of effects waits as long as an interactive call
\* may, is not begun for a caller that has gone, and shows in the activity list
\* (README.md:37), except for the activation of a reviewed extension.
ChangeIsGuarded(t) ==
    (\E scope \in DOMAIN Changing : t \in Changing[scope]) /\ t # "get_extension_integration_state" =>
        t \in Interactive /\ t \in Checked /\ t \in Tracked \cup RecordedByManager
=============================================================================

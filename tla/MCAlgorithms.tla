---------------------------- MODULE MCAlgorithms ----------------------------
(* The pure algorithms, each on the inputs of a small instance: a state holds one input. *)
EXTENDS ToolTable, TestImpact, OutputSanitizer, RpcFrames, TextEdits, TLC

CONSTANTS MaxRaw, MaxChunkBytes, MaxChunks, MaxPaths
ASSUME AlgorithmsAssumption == {MaxRaw, MaxChunkBytes, MaxChunks, MaxPaths} \subseteq Nat

VARIABLE case

Nowhere == [of |-> "none"]
AlgorithmsInit == case = Nowhere

MCText == <<"a", "b">>
MCNewTexts == {<<>>, <<"x", "y">>}

Paths ==
    TestFiles
      \cup {Append(Source("protocol"), f) : f \in {"ide.ts", "index.ts"}}
      \cup {Append(Source("mcp-server"), f) :
              f \in {"index.ts", "instances.ts", "http-runtime.ts", "service-daemon.ts", "usage-insights.ts"}}
      \cup {Append(Source("vscode-extension"), f) :
              f \in {"extension.ts", "bridge-host.ts", "change-set-manager.ts", "ide-autonomy-manager.ts",
                     "workflow-provenance.ts", "canonical-path-boundary.ts", "document-access-grants.ts",
                     "task-manager.ts", "terminal-capture.ts", "debug-manager.ts", "debug-output-capture.ts",
                     "installation.ts", "extension-profile-core.ts", "language-services.ts",
                     "agent-activity.ts", "unknown.ts"}}
      \cup {Append(TestsOf("vscode-extension"), "e2e") \o <<"extension.e2e.ts">>,
            Append(TestsOf("vscode-extension"), "fixtures") \o <<"fixture.json">>,
            Append(TestsOf("vscode-extension"), "http-lifecycle-harness") \o <<"extension.js">>,
            <<"packages", "new-runtime", "src", "index.ts">>, <<"packages", "vscode-extension", "package.json">>,
            <<"packages", "vscode-extension", "resources", "icon.png">>,
            <<"packages", "protocol", "tsconfig.json">>, <<"packages", "protocol", "AGENTS.md">>,
            <<"docs", "testing-strategy.md">>, <<"LICENSE">>, <<"bun.lock">>, <<".vscode", "tasks.json">>,
            <<".github", "workflows", "ci.yml">>, <<".gitignore">>,
            <<"scripts", "check.ts">>, <<"scripts", "run-vsix-e2e.ts">>, <<"scripts", "package-vsix.ts">>,
            <<"scripts", "lib", "windows-executable.ts">>}

ChooseTool == \E t \in Registered : case' = [of |-> "tool", input |-> t]
ChooseEdits == \E list \in Lists : case' = [of |-> "edits", input |-> list]
ChooseRaw == \E raw \in BoundedSeq(Characters, MaxRaw) : case' = [of |-> "raw", input |-> raw]
ChooseChunks ==
    \E chunks \in BoundedSeq(BoundedSeq(FrameBytes, MaxChunkBytes), MaxChunks) :
        case' = [of |-> "chunks", input |-> chunks]
ChooseChange ==
    \E force \in BOOLEAN, additional \in {{}, {"ui-insights"}} :
        case' = [of |-> "change", input |-> [paths |-> {}, additional |-> additional, force |-> force]]
ChangePath ==
    /\ case.of = "change" /\ Cardinality(case.input.paths) < MaxPaths
    /\ \E p \in Paths : case' = [case EXCEPT !.input.paths = @ \cup {p}]

AlgorithmsNext ==
    \/ case = Nowhere /\ (ChooseTool \/ ChooseEdits \/ ChooseRaw \/ ChooseChunks \/ ChooseChange)
    \/ ChangePath

AlgorithmsSpec == AlgorithmsInit /\ [][AlgorithmsNext]_case

\* ChangeIsGuarded of each registered tool of mcp-session.ts
ChangesAreGuarded == case.of = "tool" => ChangeIsGuarded(case.input)
\* PreviewIsApplied of each list of edits of change-set-manager.ts
PreviewsAreApplied == case.of = "edits" => PreviewIsApplied(case.input)
\* SanitizedIsText of each stream of terminal-capture.ts, ChunksDoNotMatter to the decoder of rpc.ts
CutsDoNotMatter ==
    /\ case.of = "raw" => SanitizedIsText(case.input)
    /\ case.of = "chunks" => ChunksDoNotMatter(case.input)
\* MoreIsNotLess of each change for test-impact.ts
ValidationGrows == case.of = "change" => MoreIsNotLess(case.input)
=============================================================================

----------------------------- MODULE TestImpact -----------------------------
(***************************************************************************)
(* What is to be run for a set of changed files: scripts/lib/              *)
(* test-impact.ts, as scripts/check-affected.ts and test-e2e-affected.ts   *)
(* carry its plan out.  A path is the sequence of its segments; where the  *)
(* code matches the beginning of a name, the files of the repository that  *)
(* match are listed; the names of retired modules match none.             *)
(***************************************************************************)
EXTENDS Naturals, Sequences, FiniteSets, SequencesExt

In(directory, path) == IsStrictPrefix(directory, path)
File(path) == Last(path)
Source(workspace) == <<"packages", workspace, "src">>
TestsOf(workspace) == <<"packages", workspace, "test">>
Listed(workspace, files) == {Append(TestsOf(workspace), f) : f \in files}

(***************************************************************************)
(* The tables                                                              *)
(***************************************************************************)

Workspaces == {"protocol", "mcp-server", "vscode-extension"}

\* DOMAIN_WORKSPACES
WorkspacesOf(domain) ==
    CASE domain = "protocol" -> Workspaces
      [] domain = "mcp-runtime" -> {"mcp-server"}
      [] domain \in {"lifecycle", "ui-insights"} -> {"mcp-server", "vscode-extension"}
      [] domain \in {"direct-ide", "task-terminal", "debug", "extension-ecosystem"} -> {"vscode-extension"}
      [] domain = "release-tooling" -> {}

Scenarios == {"http-bridge", "core-language", "lifecycle", "direct-ide", "task-terminal", "debug",
              "extension-ecosystem", "master-switch"}

\* DOMAIN_E2E_SCENARIOS
ScenariosOf(domain) ==
    CASE domain = "protocol" -> Scenarios
      [] domain = "mcp-runtime" -> {"core-language"}
      [] domain = "lifecycle" -> {"lifecycle", "master-switch"}
      [] domain \in {"direct-ide", "task-terminal", "debug", "extension-ecosystem"} -> {domain}
      [] domain \in {"ui-insights", "release-tooling"} -> {}

Contracts == Listed("protocol", {"workflow-contracts.test.ts", "ide-contracts.test.ts"})

\* DOMAIN_TEST_FILES: test files, and directories of them
TestFilesOf(domain) ==
    CASE domain = "protocol" ->
           {TestsOf("protocol")} \cup Listed("mcp-server", {"service-process.test.ts", "rpc-client.test.ts"})
      [] domain = "mcp-runtime" -> {TestsOf("mcp-server")}
      [] domain = "lifecycle" ->
           Listed("mcp-server", {"instances.test.ts", "rpc-client.test.ts"})
             \cup Listed("vscode-extension",
                    {"codex-config.test.ts", "agent-activity.test.ts", "bridge-lifecycle.test.ts",
                     "document-access-grants.test.ts", "private-registry-file.test.ts",
                     "windows-identity.test.ts"})
             \cup Listed("protocol", {"registry.test.ts", "rpc.test.ts"})
      [] domain = "direct-ide" ->
           Listed("vscode-extension", {"canonical-path-boundary.test.ts", "agent-activity.test.ts"})
             \cup Listed("protocol", {"change-contracts.test.ts"}) \cup Contracts
      [] domain = "task-terminal" ->
           Listed("vscode-extension", {"canonical-path-boundary.test.ts", "terminal-capture.test.ts",
                                       "workflow-provenance.test.ts"}) \cup Contracts
      [] domain = "debug" ->
           Listed("vscode-extension", {"canonical-path-boundary.test.ts", "debug-output-capture.test.ts",
                                       "workflow-provenance.test.ts"}) \cup Contracts
      [] domain = "extension-ecosystem" ->
           Listed("vscode-extension",
                  {"extension-install-boundary.test.ts", "extension-integration-registry.test.ts",
                   "extension-marketplace.test.ts", "extension-profile-core.test.ts",
                   "python-environment-integration.test.ts"})
             \cup Listed("protocol", {"extension-awareness-contracts.test.ts",
                                      "extension-integration-contracts.test.ts",
                                      "extension-orchestration-contracts.test.ts"})
      [] domain = "ui-insights" ->
           Listed("mcp-server", {"usage-insights.test.ts"})
             \cup Listed("vscode-extension", {"agent-activity.test.ts", "bridge-hub-manifest.test.ts",
                                              "local-usage-insights.test.ts", "output-source-order.test.ts"})
      [] domain = "release-tooling" ->
           {<<"scripts", "lib", "release-environment.test.ts">>,
            <<"scripts", "lib", "windows-executable.test.ts">>}

\* TEST_FILE_DOMAINS, the first that matches; no domain for a name that none of them knows.
TestDomains(path) ==
    LET f == File(path)
    IN CASE In(TestsOf("protocol"), path) ->
              IF f \in {"extension-awareness-contracts.test.ts", "extension-integration-contracts.test.ts",
                        "extension-orchestration-contracts.test.ts"}
              THEN {"extension-ecosystem"} ELSE {"protocol"}
         [] In(TestsOf("mcp-server"), path) ->
              IF f = "usage-insights.test.ts" THEN {"ui-insights"} ELSE {"mcp-runtime"}
         [] f = "canonical-path-boundary.test.ts" -> {"direct-ide"}
         [] f \in {"document-access-grants.test.ts", "codex-config.test.ts"} -> {"lifecycle"}
         [] f \in {"terminal-capture.test.ts", "workflow-provenance.test.ts"} -> {"task-terminal"}
         [] f = "debug-output-capture.test.ts" -> {"debug"}
         [] f \in {"extension-install-boundary.test.ts", "extension-integration-registry.test.ts",
                   "extension-marketplace.test.ts", "extension-profile-core.test.ts",
                   "python-environment-integration.test.ts"} -> {"extension-ecosystem"}
         [] f \in {"agent-activity.test.ts", "bridge-hub-manifest.test.ts", "local-usage-insights.test.ts",
                   "output-source-order.test.ts"} -> {"ui-insights"}
         [] In(<<"scripts">>, path) -> {"release-tooling"}
         [] OTHER -> {}

(***************************************************************************)
(* Kinds of paths                                                          *)
(***************************************************************************)

Documents == {"README.md", "AGENTS.md", "SECURITY.md", "CHANGELOG.md", "THIRD_PARTY_NOTICES.md"}

IsDocumentationPath(path) == In(<<"docs">>, path) \/ File(path) \in Documents \/ path = <<"LICENSE">>
IsAgentHandbookPath(path) == File(path) = "AGENTS.md" \/ In(<<"docs", "agent-handbook">>, path)

IsDeveloperWorkspacePath(path) ==
    \/ File(path) = "vscode-agent-bridge.code-workspace"
    \/ path \in {<<".vscode", f>> : f \in {"settings.json", "tasks.json", "launch.json", "extensions.json"}}

IsE2EInfrastructurePath(path) ==
    \/ path \in {<<"scripts", f>> : f \in {"run-extension-e2e.ts", "run-vsix-e2e.ts", "test-e2e-affected.ts",
                                           "test-http-window-lifecycle.ts"}}
    \/ path \in {<<"scripts", "lib", f>> : f \in {"e2e-runner.ts", "http-e2e-service.ts"}}
    \/ path \in {<<"packages", "vscode-extension", f>> : f \in {".vscode-test.mjs", ".vscode-test-artifact.mjs"}}
    \/ \E d \in {"e2e", "harness", "http-lifecycle-harness"} : In(Append(TestsOf("vscode-extension"), d), path)

TestFiles ==
    (UNION {{p \in TestFilesOf(d) : Last(p) # "test"} :
               d \in {"lifecycle", "direct-ide", "task-terminal", "debug", "extension-ecosystem", "ui-insights",
                      "release-tooling"}})
      \cup Listed("mcp-server", {"http-runtime.test.ts", "http-discovery.test.ts", "service-installer.test.ts",
                                   "service-process.test.ts", "service-version-pruner.test.ts"})
      \cup Listed("protocol", {"tool-catalog.test.ts", "service-contracts.test.ts", "language-contracts.test.ts",
                               "version.test.ts"})
      \cup {<<"scripts", "lib", "test-impact.test.ts">>}

IsTestPath(path) == (\E n \in 2..(Len(path) - 1) : path[n] = "test") \/ path \in TestFiles

IsPackagingManifestPath(path) == File(path) = "package.json" \/ path \in {<<"bun.lock">>, <<"bun.lockb">>}
IsManifestOrCompilerPath(path) ==
    IsPackagingManifestPath(path) \/ File(path) \in {"tsconfig.json", "tsconfig.base.json"}

IsArtifactScript(path) ==
    \/ path \in {<<"scripts", f>> : f \in {"build-mcp-executable.ts", "package-vsix.ts", "create-test-bundle.ts",
            "create-checksums.ts", "test-artifacts.ts", "test-http-service.ts", "test-http-window-lifecycle.ts",
            "run-vsix-e2e.ts", "verify-release.ts"}}
    \/ path \in {<<"scripts", "lib", f>> : f \in {"windows-acl-test.ts", "windows-executable.ts"}}

(***************************************************************************)
(* The impact of one path: what the loop of classifyTestImpact adds to     *)
(* its sets and flags                                                      *)
(***************************************************************************)

RiskDocs == 1
RiskAffected == 2
RiskFull == 3

Nothing == [domains |-> {}, workspaces |-> {}, scenarios |-> {}, layers |-> {},
            risk |-> RiskDocs, fullE2E |-> FALSE, repeatE2E |-> FALSE, artifact |-> FALSE]

Affected(domains, scenarios) ==
    [Nothing EXCEPT !.domains = domains, !.workspaces = UNION {WorkspacesOf(d) : d \in domains},
                    !.scenarios = scenarios, !.risk = RiskAffected]
Full(impact, e2e) == [impact EXCEPT !.risk = RiskFull, !.fullE2E = @ \/ e2e]

\* classifyExtensionSource, in the order of its questions
ExtensionSource(f) ==
    CASE f \in {"extension.ts", "request-handlers.ts"} -> Full(Affected({"lifecycle"}, {}), TRUE)
      [] f \in {"bridge-host.ts", "bridge-lifecycle.ts", "private-registry-file.ts", "windows-identity.ts",
                "workspace-setup.ts", "legacy-experiment-data.ts", "policies.ts", "codex-config.ts"} ->
           Full(Affected({"lifecycle"}, {"lifecycle", "master-switch"}), FALSE)
      [] f \in {"change-set-manager.ts", "resource-change-executor.ts"} ->
           Full(Affected({"direct-ide"}, {"direct-ide"}), FALSE)
      [] f \in {"workspace-configuration-handlers.ts", "workspace-configuration-manager.ts",
                "ide-autonomy-manager.ts"} -> Affected({"direct-ide"}, {"direct-ide"})
      [] f = "workflow-provenance.ts" ->
           Affected({"direct-ide", "task-terminal", "debug"}, {"direct-ide", "task-terminal", "debug"})
      [] f = "canonical-path-boundary.ts" ->
           Full(Affected({"direct-ide", "task-terminal", "debug"},
                         {"core-language", "direct-ide", "task-terminal", "debug"}), TRUE)
      [] f \in {"document-access-controller.ts", "document-access-grants.ts"} ->
           Full(Affected({"lifecycle"}, {"core-language"}), TRUE)
      [] f \in {"task-manager.ts", "task-request-handlers.ts"} ->
           Full(Affected({"task-terminal"}, {"task-terminal"}), FALSE)
      [] f \in {"terminal-capture.ts", "terminal-observer.ts"} -> Affected({"task-terminal"}, {"task-terminal"})
      [] f \in {"debug-manager.ts", "debug-request-handlers.ts"} -> Full(Affected({"debug"}, {"debug"}), FALSE)
      [] f = "debug-output-capture.ts" -> Affected({"debug"}, {"debug"})
      [] f = "installation.ts" ->
           [Affected({"extension-ecosystem"}, {"extension-ecosystem"}) EXCEPT !.artifact = TRUE]
      [] f \in {"extension-awareness-handlers.ts", "extension-awareness-manager.ts",
                "extension-integration-handlers.ts", "extension-integration-manager.ts",
                "extension-integration-registry.ts", "extension-maintainers.ts",
                "extension-marketplace-handlers.ts", "extension-marketplace-manager.ts",
                "extension-marketplace-service.ts", "extension-profile-core.ts", "extension-profile-handlers.ts",
                "extension-profile-manager.ts", "marketplace-client.ts",
                "python-environment-integration-core.ts"} ->
           Affected({"extension-ecosystem"}, {"extension-ecosystem"})
      [] f \in {"language-services.ts", "editor-context.ts"} -> Affected({"ui-insights"}, {"core-language"})
      [] f \in {"agent-activity.ts", "agent-activity-ui.ts", "bridge-hub-ui.ts", "local-usage-insights.ts", "output-source-order.ts"} ->
           Affected({"ui-insights"}, {})
      [] OTHER -> Full(Affected({}, {}), TRUE)

ServiceBoundary == {"http-runtime.ts", "mcp-session.ts", "request-context.ts", "service-auth.ts", "service-cli.ts",
                    "service-config.ts", "service-control.ts", "service-daemon.ts", "service-errors.ts",
                    "service-installer.ts", "service-scheduler.ts", "service-state.ts",
                    "service-version-pruner.ts", "windows-service-native.ts"}

McpServerSource(f) ==
    LET insights == f = "usage-insights.ts"
        base == Affected({IF insights THEN "ui-insights" ELSE "mcp-runtime"},
                         IF insights THEN {} ELSE {"core-language"})
        boundary == f \in ServiceBoundary
        all == IF boundary THEN [base EXCEPT !.domains = @ \cup {"lifecycle"}, !.artifact = TRUE,
                                             !.workspaces = @ \cup WorkspacesOf("lifecycle")]
               ELSE base
    IN IF boundary \/ f = "index.ts" THEN Full(all, TRUE) ELSE all

E2EInfrastructure(path) ==
    LET impact == [Affected({"lifecycle"}, {}) EXCEPT !.repeatE2E = TRUE]
    IN [Full(impact, TRUE) EXCEPT
           !.artifact = \/ IsArtifactScript(path) \/ path = <<"scripts", "lib", "http-e2e-service.ts">>
                        \/ In(Append(TestsOf("vscode-extension"), "http-lifecycle-harness"), path)
                        \/ path = <<"packages", "vscode-extension", ".vscode-test-artifact.mjs">>]

Test(path) ==
    LET fixture == \E n \in 2..(Len(path) - 2) : path[n] = "test" /\ path[n + 1] = "fixtures"
    IN [Affected(TestDomains(path), {}) EXCEPT !.fullE2E = fixture, !.repeatE2E = fixture]

Impact(path) ==
    LET f == File(path)
        inLayer(impact, w) == [impact EXCEPT !.layers = {w}, !.workspaces = @ \cup {w}]
        tooling == Affected({"release-tooling"}, {})
    IN CASE IsDocumentationPath(path) -> Nothing
         [] IsDeveloperWorkspacePath(path) -> Full(tooling, FALSE)
         [] IsE2EInfrastructurePath(path) -> E2EInfrastructure(path)
         [] IsTestPath(path) -> Test(path)
         [] In(Source("protocol"), path) -> inLayer(Full(Affected({"protocol"}, {}), TRUE), "protocol")
         [] In(Source("mcp-server"), path) -> inLayer(McpServerSource(f), "mcp-server")
         [] In(Source("vscode-extension"), path) -> inLayer(ExtensionSource(f), "vscode-extension")
         [] IsManifestOrCompilerPath(path) ->
              [Full(tooling, FALSE) EXCEPT !.artifact = IsPackagingManifestPath(path)]
         [] In(<<"scripts">>, path) -> [Full(tooling, FALSE) EXCEPT !.artifact = IsArtifactScript(path)]
         [] \/ In(<<"packages", "vscode-extension", "resources">>, path)
            \/ path = <<"packages", "vscode-extension", ".vscodeignore">> -> [tooling EXCEPT !.artifact = TRUE]
         [] In(<<".github", "workflows">>, path) -> tooling
         [] OTHER -> Full(Affected({}, {}), TRUE)
(***************************************************************************)
(* The plan of a change, and what the scripts run for it                   *)
(***************************************************************************)

\* change = [paths, additional (domains asked for), force]
Plan(change) ==
    LET impacts == {Impact(p) : p \in change.paths}
        all(Part(_)) == UNION {Part(i) : i \in impacts}
        some(Flag(_)) == \E i \in impacts : Flag(i)
        spans == Cardinality(all(LAMBDA i : i.layers)) > 1
        domains == all(LAMBDA i : i.domains) \cup change.additional
        full == spans \/ change.force \/ some(LAMBDA i : i.risk = RiskFull)
        affected == change.additional # {} \/ some(LAMBDA i : i.risk = RiskAffected)
    IN [domains |-> domains,
        workspaces |-> all(LAMBDA i : i.workspaces) \cup UNION {WorkspacesOf(d) : d \in change.additional},
        testFiles |-> UNION {TestFilesOf(d) : d \in domains},
        scenarios |-> all(LAMBDA i : i.scenarios) \cup UNION {ScenariosOf(d) : d \in change.additional},
        risk |-> IF full THEN RiskFull ELSE IF affected THEN RiskAffected
                 ELSE IF change.paths = {} THEN 0 ELSE RiskDocs,
        fullE2E |-> spans \/ change.force \/ "protocol" \in change.additional \/ some(LAMBDA i : i.fullE2E),
        repeatE2E |-> some(LAMBDA i : i.repeatE2E),
        artifact |-> some(LAMBDA i : i.artifact),
        handbook |-> \E p \in change.paths : IsAgentHandbookPath(p)]

\* buildCommands: type checks and builds
BuiltWorkspaces(plan) ==
    IF plan.risk = RiskFull THEN Workspaces ELSE IF plan.risk = RiskAffected THEN plan.workspaces ELSE {}

\* buildCommands: bun test
RunsTest(plan, file) ==
    \/ plan.risk = RiskFull
    \/ plan.risk = RiskAffected /\ \E t \in plan.testFiles : t = file \/ In(t, file)

\* Mutant: the scenarios of the plan are run; a plan for all of them lists none.
ListedScenarios(plan) == IF plan.fullE2E THEN {} ELSE plan.scenarios
\* test-e2e-affected.ts
RunScenarios(plan) == IF plan.repeatE2E \/ plan.fullE2E THEN Scenarios ELSE plan.scenarios

(***************************************************************************)
(* Properties of a change                                                  *)
(***************************************************************************)

\* Validation only grows with a change (docs/testing-strategy.md: there is no subtracting of
\* selected coverage): every type check, build, test, scenario and the artifact gate that is run
\* for a part of the changed files is run for all of them, across the upgrades to the full
\* gates.  The checks of documents are not: they are run for documents alone.
MoreIsNotLess(change) ==
    \A p \in change.paths :
        LET all == Plan(change)
            part == Plan([change EXCEPT !.paths = @ \ {p}])
        IN /\ all.risk >= part.risk
           /\ BuiltWorkspaces(part) \subseteq BuiltWorkspaces(all)
           /\ \A t \in TestFiles : RunsTest(part, t) => RunsTest(all, t)
           /\ RunScenarios(part) \subseteq RunScenarios(all)
           /\ (part.repeatE2E => all.repeatE2E) /\ (part.artifact => all.artifact)

=============================================================================

----------------------------- MODULE MCRuntime ------------------------------
(* A process with four images: the program, a library, a second load of    *)
(* that library, which has no UUID, and one whose header cannot be read.   *)
(* The selectors include two spellings of one set, a set that is too deep  *)
(* and one in itself.                                                      *)
EXTENDS HKRuntime

MCSelectors == {"any", "main", "app", "lib", "build", "pair", "twice", "deep", "loop"}
MCSelectorKind ==
    [s \in MCSelectors |-> CASE s = "any" -> "any"   [] s = "main" -> "main"
                             [] s \in {"app", "lib"} -> "path"
                             [] s = "build" -> "uuid"
                             [] OTHER -> "set"]
MCSelectorValue == "app" :> "/app" @@ "lib" :> "/lib" @@ "build" :> "B"
MCMembers ==
    [s \in MCSelectors |->
        CASE s = "pair"  -> <<"lib", "main">>
          [] s = "twice" -> <<"main", "pair", "lib">>
          [] s = "deep"  -> <<"twice">>
          [] s = "loop"  -> <<"main", "loop">>
          [] OTHER       -> <<>>]

Image(path, uuid, header, first, last) ==
    [path |-> path, uuid |-> uuid, header |-> header, main |-> path = "/app",
     parsed |-> TRUE, bounded |-> first # last, first |-> first, last |-> last]
App == Image("/app", "A", 1, 1, 3)
Lib == Image("/lib", "B", 3, 3, 5)
LibAgain == Image("/lib", "none", 6, 6, 7)
Odd == [Image("/lib", "B", 8, 0, 0) EXCEPT !.parsed = FALSE]
MCPreloaded == <<App, Odd, Lib>>
MCImages == {App, Lib, LibAgain, Odd}

\* An engine that claims symbol scopes and a high rank but patches more text than
\* it says, and a rebind engine for the program alone.
MCTestEngines ==
    "test-liar" :> [Native EXCEPT !.group = "", !.kinds = {"address", "symbol"},
                                  !.scoped = {"symbol"}, !.rank = 1, !.floor = 0,
                                  !.reach = {"entry", "imports", "scope"},
                                  !.commit = {"import"}, !.vtable = 3] @@
    "test-rebind" :> [RebindEngine EXCEPT !.vtable = 2]
MCUndeclared == "test-liar" :> {"text"}

IOS(arch, version) ==
    [os |-> "ios", arch |-> arch, canonical |-> TRUE, version |-> version]
Host == [os |-> "host", arch |-> "arm64", canonical |-> FALSE, version |-> <<>>]
Config(platform, context, pinned, list) ==
    [platform |-> platform, context |-> context, pinned |-> pinned, list |-> list]
MCConfigs ==
    {Config(IOS("arm64e", <<15, 0>>), "main", FALSE, <<>>),
     Config(IOS("arm64", <<14, 8, 1>>), "main", FALSE, <<>>),
     Config(IOS("armv7", <<9>>), "main", FALSE, <<>>),
     Config(IOS("arm64", <<100, 100>>), "arbitrary", FALSE, <<>>),
     Config(IOS("arm64", <<429496, 73>>), "main", FALSE, <<>>),
     Config(Host, "main", FALSE, <<>>),
     Config(IOS("arm64", <<16, 1>>), "main", TRUE, <<"unheard-of">>),
     Config(IOS("arm64", <<16, 1>>), "early", TRUE, <<"gum", "inline-static">>),
     Config(IOS("arm64", <<16, 1>>), "main", TRUE,
            <<"inline-static", "native", "dobby">>)}

Address(original, policy, forbids) ==
    [kind |-> "address", original |-> original, policy |-> policy,
     required |-> {"entry"}, preferred |-> {}, forbids |-> forbids,
     selector |-> "pair", caller |-> "any", uuid |-> "any", address |-> 4,
     relative |-> FALSE, window |-> 4, passes |-> Providers]
Plain == Address("none", "any", {})
Symbol == [Plain EXCEPT !.kind = "symbol", !.required = {"imports"},
                        !.selector = "any"]
Memory == [Plain EXCEPT !.kind = "memory", !.required = {"bytes"}]

\* The requests that go no further than the choice of an engine.
Analysed1 ==
    {Address(o, p, f) : o \in AllOriginals,
                        p \in {"any", "no-dynamic-memory", "forbidden"},
                        f \in {{}, {"dynamic-memory"}}}
    \cup {[Plain EXCEPT !.preferred = {"scope"}, !.forbids = f] :
             f \in {{}, {"provider-image"}, {"unknown-commit-effects"}}}
    \cup {[Plain EXCEPT !.window = 16],
          [Plain EXCEPT !.passes = {"provider-substitute"}],
          [Plain EXCEPT !.selector = "deep"], [Plain EXCEPT !.selector = "loop"],
          [Symbol EXCEPT !.selector = "lib"],
          [Symbol EXCEPT !.selector = "lib", !.required = {"imports", "scope"}],
          [Plain EXCEPT !.kind = "swift"], Memory,
          [Plain EXCEPT !.kind = "objc", !.required = {"dispatch"}]}

\* Those that are prepared and committed.
MCCommitted ==
    {[Plain EXCEPT !.required = {"entry", "scope"}, !.selector = c[1],
                   !.uuid = c[2], !.address = c[3]] :
        c \in {<<"lib", "B", 6>>, <<"twice", "any", 5>>}}
    \cup {[Plain EXCEPT !.required = {"entry", "scope"}, !.original = "callable",
                        !.policy = "no-dynamic-memory"],
          [Plain EXCEPT !.forbids = {"text-patch"}],
          [Symbol EXCEPT !.caller = "lib"], [Symbol EXCEPT !.caller = "main"],
          [Memory EXCEPT !.relative = TRUE, !.required = {"bytes", "scope"},
                         !.selector = "main", !.address = 2]}

MCRequests == Analysed1 \cup MCCommitted
=============================================================================

------------------------- MODULE MCRequestLifecycle -------------------------
(* Small instances of RequestLifecycle: paths over "/" and "a". *)
EXTENDS RequestLifecycle

MCRoutePaths == {<<"/">>, <<"/", "a">>, <<"/", "a", "/">>}
MCPaths == {<<"/">>, <<"/", "a">>, <<"/", "a", "/", "a">>}
MCFiles == {<<"a">>, <<"/", "a">>}

FewRoutePaths == {<<"/">>}

=============================================================================

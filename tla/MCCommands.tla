----------------------------- MODULE MCCommands -----------------------------
(***************************************************************************)
(* An instance of Commands: two accounts of one storage service, each with *)
(* a section of the configuration file, and two terminals.                 *)
(***************************************************************************)
EXTENDS Commands, TLC

Options0 ==
    ("storage" :> "" @@ "auth" :> "" @@ "credentials" :> <<>> @@ "datadir" :> ""
     @@ "keyring" :> "user")

\* Section "one" keeps its data in the home directory and its credentials in the
\* user's keyring there, section "two" in a directory of its own and a file.
TwoSections ==
    ("" :> ("storage" :> "one")
     @@ "one" :> ("storage" :> "drive" @@ "credentials" :> <<"keyring", "one">>)
     @@ "two" :> ("storage" :> "drive" @@ "credentials" :> <<"uri", "two">> @@ "datadir" :> "d2"
              @@ "auth" :> "drive"))

\* The first terminal has what the file says, the second may ask for section "two".
TwoFlags == "t1" :> {<<>>} @@ "t2" :> {<<>>, "storage" :> "two" @@ "credentials" :> <<"file", "two">>}

TwoKeys == <<"keyring", "home", "one">> :> "a1" @@ <<"file", "two">> :> "a2"

SomePasses == {<<"one", "a1">>}

SomeAuthPaths == {<<"uri", "two">>}

SomeSettings == {<<"", "storage", "two">>, <<"", "keyring", "odd">>}

SomeCommands ==
    "t1" :> {"cache-put", "cache-mv", "mount", "config-set", "config-delete", "keyring-set",
             "keyring-delete"}
    @@ "t2" :> {"put", "rm", "cache-ls", "cache-get", "cache-rm", "cache-reset", "cache-pending",
                "auth"}
=============================================================================

----------------------------- MODULE MCInstaller -----------------------------
(* Installer on small repositories. *)
EXTENDS Installer

Nowhere == [d \in Dirs |-> Null]

Page == [ext |-> "tsx", elements |-> TRUE]
Bare(ext) == [ext |-> ext, elements |-> FALSE]

\* One app, in the directory init is run in.
Single(stack, files) ==
  [ stacks |-> [Nowhere EXCEPT !["root"] = stack], globs |-> {}, cwd |-> "root",
    files |-> files, body |-> TRUE ]

\* A workspace of two packages, run from its root; one of them or both are apps.
Glob(dirs) == [paths |-> dirs]
Mono(stackB, globs) ==
  [ stacks |-> [root |-> Null, a |-> "react", b |-> stackB], globs |-> globs, cwd |-> "root",
    files |-> <<Page>>, body |-> TRUE ]

MCWorkspaces ==
  { Single("react", <<Page>>), Single("vue", <<Bare("vue")>>), Single("vanilla-vite", <<>>),
    Single("next", <<Page>>), Single("plain-html", <<>>),
    Mono(Null, {Glob({"a", "b"})}), Mono("vue", {Glob({"a", "b"})}), Mono(Null, {}),
    Mono(Null, {Glob({"a", "b"}), Glob({"a"})}) }

HtmlWorkspaces == {Single("plain-html", <<>>)}

MCForms ==
  { NoMention, Form("comment", "bare", "default"), Form("import", "bare", "default"),
    Form("preset", "bare", "misses"), Form("call", "bare", "default"),
    Form("call", "literal", "brace"), Form("call", "literal", "misses"),
    Form("call", "variable", "misses") }

\* Options spread into the call: the include is in them.
SpreadForms == {Form("call", "spread", "misses")}

NoServer == {Null}
MCServers == {Null, [token |-> 0, protocol |-> 2]}
=============================================================================

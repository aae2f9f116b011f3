---------------------------- MODULE MCTaskFiles ----------------------------
(* A small instance of TaskFiles. *)
EXTENDS TaskFiles

Folder(base) == Name(base, "", 0)
Text == Name("a", "txt", 0)
Prefix == Name("$pboprefix$", "", 0)

MCCurrentPath == <<Folder("cwd")>>
Out == <<Folder("out")>>
D1 == <<Folder("d1")>>
D2 == <<Folder("d2")>>
X == Folder("x")
XPbo == Name("x", "pbo", 0)

\* A PBO with two headers, a file of two buffers and a prefix file of its own.
Archive1 ==
  [headers |-> <<Header("prefix", <<"pre">>), Header("author", <<"me">>)>>,
   files |-> (Text :> Bytes(<<"A", "A">>)) @@ (Prefix :> Bytes(<<"q">>)),
   compressed |-> {Text}]

\* One without headers, with another file of that name.
Archive2 ==
  [headers |-> <<>>, files |-> Text :> Bytes(<<"B">>), compressed |-> {}]

\* Entries that no disk takes as they are: two of them come to one name.
Archive3 ==
  [headers |-> <<>>, compressed |-> {},
   files |-> (Name("what?", "txt", 0) :> Bytes(<<"E">>))
          @@ (Name("what%3f", "txt", 0) :> Bytes(<<"F">>))
          @@ (Name("con", "txt", 0) :> Bytes(<<"G", "G">>))]

MCEscapes == "what?" :> "what%3f"
MCReserved == "con" :> {"con-1", "con-2"}
MCPrefixPaths == <<"pre">> :> <<Folder("pre")>>

YPbo == Name("y", "pbo", 0)

Sources ==
  (D1 \o <<XPbo>> :> PboFile(Archive1)) @@ (D2 \o <<XPbo>> :> PboFile(Archive2))
  @@ (D1 \o <<YPbo>> :> PboFile(Archive3))
  @@ (D1 \o <<X, Text>> :> Bytes(<<"C">>))
  @@ (D1 \o <<X, Prefix>> :> Bytes(<<"p">>))
  @@ (D2 \o <<X, PboJsonName>> :>
        JsonFile([headers |-> <<Header("version", <<"1">>)>>,
                  include |-> <<Rule("extension", "", "txt")>>,
                  exclude |-> <<>>]))
  @@ (D2 \o <<X, Text>> :> Bytes(<<"D">>))

\* Nothing but the sources; what a cancelled command has left; and files that
\* are in the way, one of them longer than what comes, and no copy of it free but
\* one.
MCDisks ==
  {Sources,
   Sources @@ (Out \o <<X, Text>> :> Bytes(<<"A">>))
           @@ (Out \o <<X, PboJsonName>> :> JsonFile(ExtractFrom(Archive1))),
   Sources @@ (Out \o <<X, Text>> :> Bytes(<<"U", "U", "U">>))
           @@ (Out \o <<X, [Text EXCEPT !.copy = 1]>> :> Bytes(<<"U">>))
           @@ (Out \o <<XPbo>> :> Bytes(<<"U">>))}

FilesOf(doc) == {doc.files[f]: f \in DOMAIN doc.files}
MCContents ==
  UNION {{d[p]: p \in DOMAIN d}: d \in MCDisks}
    \union UNION {FilesOf(doc): doc \in {Archive1, Archive2, Archive3}}

MCFolders ==
  {MCCurrentPath, Out, D1, D2, Out \o <<X>>, D1 \o <<X>>, D2 \o <<X>>}

Both(verb) ==
  LET last == IF verb = "unpack" THEN XPbo ELSE X
  IN  <<Input(D1 \o <<last>>, FALSE), Input(D2 \o <<last>>, FALSE)>>

MCUserCommands ==
  {Command("pbom", verb, Both(verb), {"--output-directory"}, Out):
     verb \in {"pack", "unpack"}}
  \union {Command("pbomc", verb, Both(verb), options, Out):
     verb \in {"pack", "unpack"}, options \in {{"--output-directory"}, {"--beside-input"}}}
  \union {Command("pbom", "unpack", Both("unpack"),
                  {"--no-ui", "--use-pbo-prefix"}, <<>>),
          Command("pbom", "unpack", <<Input(D1 \o <<YPbo>>, FALSE)>>, {}, <<>>),
          Command("pbom", "pack", <<Input(D1 \o <<X>>, TRUE)>>,
                  {"--beside-input"}, <<>>)}

\* A PBO, a folder that is empty, and both.
MCSelections ==
  {<<D1 \o <<XPbo>>>>, <<Out \o <<X>>>>, <<D1 \o <<XPbo>>, D1 \o <<X>>>>}
MCAnswers == {Out}
=============================================================================

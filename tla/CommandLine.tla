----------------------------- MODULE CommandLine -----------------------------
(***************************************************************************)
(* The two programs, pbom and the console program pbomc, as they are       *)
(* started: what a command line may hold (commandline.h), where the output *)
(* goes (main.cpp, console.cpp), and the command lines that the menu of    *)
(* the Windows Explorer makes of a selection (pboe).                       *)
(***************************************************************************)
EXTENDS Naturals, Sequences, FiniteSets, SequencesExt

CONSTANT CurrentPath  \* QDir::currentPath()

\* The input of a command: the file or folder, and whether its path was
\* written with a slash at the end, as shells complete it.
Input(path, slash) == [path |-> path, slash |-> slash]

Command(program, verb, inputs, options, output) ==
  [program |-> program, verb |-> verb, inputs |-> inputs,
   options |-> options, output |-> output]

-----------------------------------------------------------------------------
(* The options. *)

\* --prompt and --no-ui are there only in the program that has a GUI.
Options(program, verb) ==
  {"--output-directory", "--beside-input"}
    \union (IF program = "pbom" THEN {"--prompt", "--no-ui"} ELSE {})
    \union (IF verb = "unpack" THEN {"--use-pbo-prefix"} ELSE {})

Excluding ==
  {{"--beside-input", "--output-directory"}, {"--prompt", "--output-directory"},
   {"--prompt", "--beside-input"}, {"--no-ui", "--prompt"}}

Accepted(program, verb, options) ==
  /\ options \subseteq Options(program, verb)
  /\ \A pair \in Excluding: ~(pair \subseteq options)

HasWindow(c) == c.program = "pbom" /\ "--no-ui" \notin c.options

\* Both the window and the console operation ask nothing when the output
\* directory is known.
Asks(c) == "--prompt" \in c.options

OutputDir(c, answer) ==
  IF "--output-directory" \in c.options THEN c.output
  ELSE IF Asks(c) THEN answer
  ELSE CurrentPath

\* QFileInfo::absolutePath is the path up to the last slash.
AbsolutePath(input) == IF input.slash THEN input.path ELSE Front(input.path)

OutputDirectoryFor(c, input, answer) ==
  IF "--beside-input" \in c.options THEN AbsolutePath(input)
  ELSE OutputDir(c, answer)

-----------------------------------------------------------------------------
(* The menu of the Explorer: pboe/commands, executable.cpp. *)

SelectionMode(selection, folders) ==
  LET Selected == ToSet(selection)
  IN  IF selection = <<>> THEN "none"
      ELSE IF Selected \intersect folders = {} THEN "files"
      ELSE IF Selected \subseteq folders THEN "folders"
      ELSE "mixed"

\* "... to" asks for the directory; "... as" and "... in" have the one the
\* selection is in.
ExplorerCommands(selection, folders) ==
  LET mode == SelectionMode(selection, folders)
      verb == IF mode = "files" THEN "unpack" ELSE "pack"
      inputs == [i \in DOMAIN selection |-> Input(selection[i], FALSE)]
  IN  IF mode \in {"none", "mixed"} THEN {}
      ELSE {Command("pbom", verb, inputs, {"--prompt"}, <<>>),
            Command("pbom", verb, inputs, {"--output-directory"},
                    Front(selection[1]))}
=============================================================================

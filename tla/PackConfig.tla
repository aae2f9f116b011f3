----------------------------- MODULE PackConfig -----------------------------
(***************************************************************************)
(* What a pack takes from the files it finds in the folder, and does not   *)
(* put in the PBO: pbo.json and the prefix files                           *)
(* (model/task/packconfiguration.cpp, pbojson.cpp), and the pbo.json that  *)
(* an unpack leaves in the folder (model/task/pbojsonhelper.cpp).          *)
(***************************************************************************)
EXTENDS Naturals, Sequences, FiniteSets, SequencesExt

\* A file name "base(copy).ext", 0 for no copy and "" for no extension.
Name(base, ext, copy) == [base |-> base, ext |-> ext, copy |-> copy]

PboJsonName == Name("pbo", "json", 0)

\* processPrefixFile: a header, its file, and the one that is looked for first.
PrefixFiles ==
  <<[header |-> "prefix",
     file |-> Name("$pboprefix$", "", 0), alt |-> Name("pboprefix", "txt", 0)],
    [header |-> "product",
     file |-> Name("$pboproduct$", "", 0), alt |-> Name("pboproduct", "txt", 0)],
    [header |-> "version",
     file |-> Name("$pboversion$", "", 0), alt |-> Name("pboversion", "txt", 0)]>>

ConfigNames ==
  {PboJsonName} \union {PrefixFiles[i].file: i \in DOMAIN PrefixFiles}
                \union {PrefixFiles[i].alt: i \in DOMAIN PrefixFiles}

\* The content of a file: its cells, and what a reader makes of them when
\* they are JSON, or a PBO.
Bytes(cells) == [as |-> "bytes", cells |-> cells, value |-> <<>>]
JsonFile(json) == [as |-> "json", cells |-> <<"{}">>, value |-> <<json>>]
PboFile(doc) == [as |-> "pbo", cells |-> <<"pbo">>, value |-> <<doc>>]

Value(content) == content.value[1]

Header(name, value) == [name |-> name, value |-> value]
NoValue == "no value"     \* no cell of any file
Absent == <<NoValue>>     \* the value of a header that has none in the JSON
Zero == "0"               \* the byte that ends a string

\* A regular expression: the files of an extension, or of one name.
Rule(kind, base, ext) == [kind |-> kind, base |-> base, ext |-> ext]

RuleMatches(rule, name) ==
  /\ rule.kind = "name" => rule.base = name.base /\ name.copy = 0
  /\ rule.kind \in {"name", "extension"}
  /\ rule.ext = name.ext

-----------------------------------------------------------------------------
(* PackConfiguration *)

HeaderWellFormed(header) == header.name # "" /\ header.value # Absent

\* An expression that is no regular expression is refused.
RulesWellFormed(rules) == \A i \in DOMAIN rules: rules[i].kind # "invalid"

\* Everything else makes JsonStructureException or its like.  An array or an
\* object that is missing counts as an empty one.
WellFormed(json) ==
  /\ \A i \in DOMAIN json.headers: HeaderWellFormed(json.headers[i])
  /\ RulesWellFormed(json.include)
  /\ RulesWellFormed(json.exclude)

ShouldCompress(json, name) ==
  /\ \E i \in DOMAIN json.include: RuleMatches(json.include[i], name)
  /\ \A i \in DOMAIN json.exclude: ~RuleMatches(json.exclude[i], name)

\* The prefix file that counts, if there is one.
PrefixFile(files, p) ==
  IF p.alt \in DOMAIN files THEN {p.alt} ELSE {p.file} \intersect DOMAIN files

\* The header that is read from a prefix file, if there is one.
PrefixHeader(files, p) ==
  SetToSeq({Header(p.header, files[f].cells): f \in PrefixFile(files, p)})

PrefixHeaders(files) ==
  PrefixHeader(files, PrefixFiles[1]) \o PrefixHeader(files, PrefixFiles[2])
    \o PrefixHeader(files, PrefixFiles[3])

PrefixBreaksPbo(files) ==
  \E i \in DOMAIN PrefixFiles: \E f \in PrefixFile(files, PrefixFiles[i]):
     Zero \in ToSet(files[f].cells)

\* The files of the configuration that are opened.
ConfigRead(files) ==
  IF PboJsonName \in DOMAIN files THEN {PboJsonName}
  ELSE UNION {PrefixFile(files, PrefixFiles[i]): i \in DOMAIN PrefixFiles}

Packed(files, headers, compressed) ==
  [outcome |-> "done",
   doc |-> [headers |-> headers,
            files |-> [f \in DOMAIN files \ ConfigNames |-> files[f]],
            compressed |-> compressed \ ConfigNames]]

NotPacked(outcome) ==
  [outcome |-> outcome,
   doc |-> [headers |-> <<>>, files |-> <<>>, compressed |-> {}]]

\* Wrong: the prefix files are read although there is a pbo.json.
ApplyBoth(files) ==
  IF PboJsonName \in DOMAIN files
  THEN LET content == files[PboJsonName]
       IN  IF content.as # "json" THEN NotPacked("malformed")
           ELSE IF ~WellFormed(Value(content)) THEN NotPacked("malformed")
           ELSE Packed(files, Value(content).headers \o PrefixHeaders(files),
                       {f \in DOMAIN files: ShouldCompress(Value(content), f)})
  ELSE IF PrefixBreaksPbo(files) THEN NotPacked("encoding")
  ELSE Packed(files, PrefixHeaders(files), {})

Apply(files) ==
  IF PboJsonName \in DOMAIN files
  THEN LET content == files[PboJsonName]
       IN  IF content.as # "json" THEN NotPacked("malformed")
           ELSE IF ~WellFormed(Value(content)) THEN NotPacked("malformed")
           ELSE Packed(files, Value(content).headers,
                       {f \in DOMAIN files: ShouldCompress(Value(content), f)})
  ELSE IF PrefixBreaksPbo(files) THEN NotPacked("encoding")
  ELSE Packed(files, PrefixHeaders(files), {})

-----------------------------------------------------------------------------
(* PboJsonHelper *)

\* The extensions that are there at all, and the mission's two files if they
\* are compressed.
ExtensionRule(doc, ext) ==
  IF \E f \in DOMAIN doc.files: f.ext = ext THEN <<Rule("extension", "", ext)>>
  ELSE <<>>
FileRule(doc, name) ==
  IF name \in doc.compressed THEN <<Rule("name", name.base, name.ext)>> ELSE <<>>

ExtractRules(doc) ==
  ExtensionRule(doc, "txt") \o ExtensionRule(doc, "xml") \o ExtensionRule(doc, "csv")
    \o FileRule(doc, Name("mission", "sqm", 0))
    \o FileRule(doc, Name("description", "ext", 0))

ExtractFrom(doc) ==
  [headers |-> doc.headers, include |-> ExtractRules(doc), exclude |-> <<>>]
=============================================================================

----------------------------- MODULE MCDocText -----------------------------
(***************************************************************************)
(* Files and texts for DocText: what an editor on Windows, a script or a   *)
(* merge may leave, and texts that look like files.                        *)
(***************************************************************************)
EXTENDS DocText

L(is, eol) == [is |-> is, val |-> Null, eol |-> eol]
E(k, kind, n, eol) == [is |-> k, val |-> [kind |-> kind, n |-> n], eol |-> eol]

MCBodies == {
  <<>>,
  <<E("subheading", "text", 2, "lf"), E("code heading", "text", 3, "lf"), L("code", "lf"),
    E("heading", "text", 1, "lf"), L("prose", "none")>>,
  <<L("fence", "lf"), E("title", "text", 1, "lf"), L("fence", "lf"), L("prose", "lf")>>,
  <<L("fence", "crlf"), L("prose", "none")>>}

MCFiles == {
  \* plain, and with a complete header
  <<L("prose", "lf")>>,
  <<L("fence", "lf"), E("created", "text", 1, "lf"), E("title", "text", 1, "lf"),
    E("version", "int", 1, "lf"), L("fence", "lf"), E("heading", "text", 2, "lf")>>,
  \* of an editor on Windows; with an empty creation time and a version "1.5"
  <<L("bom fence", "crlf"), L("heading", "crlf"), E("created", "text", 0, "crlf"),
    E("version", "float", 1, "crlf"), L("fence", "crlf"), L("prose", "crlf")>>,
  \* a closing fence that ends in "\r\r\n"; a version that is too great
  <<L("fence", "lf"), E("version", "uint", 0, "lf"), L("fence", "crcrlf"), L("prose", "none")>>,
  \* the greatest version, and nothing behind the header
  <<L("fence", "lf"), E("version", "int", MaxInt, "lf"), L("fence", "none")>>,
  \* not a header: a byte order mark before the only closing fence, an opening fence
  \* that ends in "\r\r\n"
  <<L("fence", "lf"), E("title", "text", 1, "lf"), L("bom fence", "lf")>>,
  <<L("fence", "crcrlf"), L("fence", "lf"), L("code", "lf")>>,
  \* an entry that is a map with a number for a key
  <<L("fence", "lf"), E("title", "opaque", 0, "lf"), L("fence", "lf"), L("prose", "lf")>>,
  \* malformed: prose in the header, and a key that occurs twice
  <<L("fence", "lf"), L("prose", "lf"), L("fence", "lf"), L("prose", "lf")>>,
  <<L("fence", "lf"), E("title", "text", 1, "lf"), E("title", "text", 2, "lf"), L("fence", "lf")>>}
=============================================================================

----------------------------- MODULE MCListing -----------------------------
(* Six keys: a folder marker and a key in the folder, a key that begins   *)
(* like it, a key and a folder of its name, and a key after them.        *)
EXTENDS Listing

MCKeySpace ==
  {<<2, 1>>, <<2, 1, 2>>, <<2, 3>>, <<3>>, <<3, 1, 2>>, <<4>>}
MCSlash == 1
MCPrefixes == {<<>>, <<2>>, <<2, 1>>}
MCScopes == {{}, {<<2, 1>>}, {<<2>>}}
MCDelimiters == {MCSlash, Nothing}
=============================================================================

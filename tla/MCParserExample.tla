-------------------------- MODULE MCParserExample --------------------------
(***************************************************************************)
(* Small streams for ParserExample: headers of three bytes, datagrams of   *)
(* three to five bytes, five being the greatest size there is, payloads    *)
(* that look like the start of a header, and one that is too long.         *)
(***************************************************************************)
EXTENDS ParserExample

MCPayloads == {<<>>, <<0>>, <<Mark, Mark>>, <<0, 0, 0>>}
=============================================================================

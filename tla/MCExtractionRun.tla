--------------------------- MODULE MCExtractionRun ---------------------------
(* A catalogue of two shows: "office" is contained in "office us", another   *)
(* reading of the same show, and in "office party", which is another show.   *)
EXTENDS ExtractionRun, TLC

CONSTANTS blank, office, officeUS, party, none

TextOf == (blank :> "") @@ (office :> "office") @@ (officeUS :> "office us")
          @@ (party :> "office party")
WithinOf == {<<"office", "office us">>, <<"office", "office party">>}
CatalogueOf ==
  office :> [work |-> "Office", edition |-> none]
  @@ officeUS :> [work |-> "Office", edition |-> none]
  @@ party :> [work |-> "Party", edition |-> none]

Tile(cross, captions) == [cross |-> cross, captions |-> captions]
Grid(parts) == [grid |-> TRUE, parts |-> parts]
ScreensOf ==
  { Grid(<<Tile("ok", <<officeUS, office>>), Tile("ok", <<party>>)>>),
    Grid(<<Tile("ok", <<office>>), Tile("ok", <<party>>)>>),
    Grid(<<Tile("llm-unavailable", <<party>>), Tile("ok", <<office>>)>>),
    Grid(<<Tile("ok", <<party>>), Tile("ok", <<>>)>>),
    Grid(<<Tile("ok", <<party>>), Tile("none", <<>>)>>),
    [grid |-> FALSE, parts |-> <<Tile("ocr-unavailable", <<officeUS>>)>>],
    [grid |-> FALSE, parts |-> <<>>] }

\* One screenshot: a tile of one show, and a tile whose caption was read twice.
OneScreen == {Grid(<<Tile("ok", <<office>>), Tile("ok", <<party, office>>)>>)}
=============================================================================

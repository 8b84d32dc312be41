--------------------------- MODULE MCPncpDownload ---------------------------
(***************************************************************************)
(* Five days in windows of three, pages of one: the first window grows for *)
(* two days and then spans two months and up to three pages.               *)
(***************************************************************************)
EXTENDS PncpDownload

MCDayOf == <<1, 3, 3>>
MCModOf == <<6, 6, 6>>
MCMonthOf == <<202401, 202401, 202402, 202402, 202402>>
=============================================================================

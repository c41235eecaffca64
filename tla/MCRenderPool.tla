---------------------------- MODULE MCRenderPool ----------------------------
(* RenderPool with a static build's caller, which blocks, and two requests. *)
EXTENDS RenderPool

CONSTANTS build, page, other
=============================================================================

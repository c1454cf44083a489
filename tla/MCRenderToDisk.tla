----------------------------- MODULE MCRenderToDisk -----------------------------
EXTENDS RenderToDisk
===============================================================================

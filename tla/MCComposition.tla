---------------------------- MODULE MCComposition ----------------------------
EXTENDS Composition
===============================================================================

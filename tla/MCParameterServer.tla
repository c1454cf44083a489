--------------------------- MODULE MCParameterServer ---------------------------
EXTENDS ParameterServer
===============================================================================

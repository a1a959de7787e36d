------------------------------- MODULE MCIpc -------------------------------
EXTENDS IpcPrograms

MC_Values == 0 .. 10
MC_Envs == 0 .. 3
=============================================================================

-------------------------- MODULE MCQualification --------------------------
EXTENDS Qualification
=============================================================================

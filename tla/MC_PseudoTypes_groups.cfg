\* A GROUPED_DATA response of two groups whose keys are distinct JSON values.
CONSTANT Inputs <- MC_Inputs
SPECIFICATION Spec
INVARIANT GroupsPreserved

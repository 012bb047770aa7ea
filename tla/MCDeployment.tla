---------------------------- MODULE MCDeployment -----------------------------
EXTENDS Deployment, TLC

OperatorSymmetry == Permutations(Operators)
JobSymmetry == Permutations(Jobs)
DeploymentSymmetry == OperatorSymmetry \cup JobSymmetry
=============================================================================
